---- MODULE Spec2Model ----
(***************************************************************************)
(* Model of the lease-extraction core of mostlyerror/leasebee:             *)
(*   - ClaudeService.extract_lease_data_with_refinement and its helpers    *)
(*     (backend/app/services/claude_service.py),                           *)
(*   - the extract endpoint that drives it                                 *)
(*     (backend/app/api/extractions.py),                                   *)
(*   - ValidationService (backend/app/services/validation_service.py).     *)
(*                                                                         *)
(* Numbers.  Confidences are Python floats in [0,1]; the model keeps them  *)
(* in hundredths (0.65 is 65).  Costs are kept in micro-dollars.           *)
(***************************************************************************)
EXTENDS Integers, Naturals, Sequences, FiniteSets, TLC

(***************************************************************************)
(* Python values                                                           *)
(*                                                                         *)
(* Every Python value carries its type: None, str (a sequence of           *)
(* one-character strings), int, float (the decimal m / 10^e) and bool.     *)
(* A dict is a function whose domain is its key set.                       *)
(***************************************************************************)
PyNone == [t |-> "none"]
PyStr(chars) == [t |-> "str", s |-> chars]
PyInt(n) == [t |-> "int", n |-> n]
PyFloat(m, e) == [t |-> "float", m |-> m, e |-> e]
PyBool(b) == [t |-> "bool", b |-> b]

\* {}
EmptyDict == [k \in {} |-> PyNone]
\* key in d
Has(d, k) == k \in DOMAIN d
\* d.get(key): None when the key is missing.
Get(d, k) == IF Has(d, k) THEN d[k] ELSE PyNone
\* d.get(key, default)
GetOr(d, k, default) == IF Has(d, k) THEN d[k] ELSE default
\* d[key] = value
Put(d, k, v) == [x \in DOMAIN d \cup {k} |-> IF x = k THEN v ELSE d[x]]

(***************************************************************************)
(* Text and numbers                                                        *)
(*                                                                         *)
(* Texts are over letters, digits, the space and the punctuation that the  *)
(* validators look at.  Exponent notation, underscores in numerals and the *)
(* tokens inf / nan are outside this alphabet.                             *)
(***************************************************************************)
DigitChars == <<"0", "1", "2", "3", "4", "5", "6", "7", "8", "9">>
IsDigit(c) == \E i \in 1..10 : DigitChars[i] = c
DigitVal(c) == (CHOOSE i \in 1..10 : DigitChars[i] = c) - 1
UpperChars == <<"A", "B", "C", "D", "E", "F", "G", "H", "I", "J", "K", "L", "M",
                "N", "O", "P", "Q", "R", "S", "T", "U", "V", "W", "X", "Y", "Z">>
LowerChars == <<"a", "b", "c", "d", "e", "f", "g", "h", "i", "j", "k", "l", "m",
                "n", "o", "p", "q", "r", "s", "t", "u", "v", "w", "x", "y", "z">>
IsUpper(c) == \E i \in 1..26 : UpperChars[i] = c
IsLower(c) == \E i \in 1..26 : LowerChars[i] = c
\* str.lower() of one character
LowerChar(c) == IF IsUpper(c) THEN LowerChars[CHOOSE i \in 1..26 : UpperChars[i] = c] ELSE c
\* str.lower()
Lower(s) == [i \in 1..Len(s) |-> LowerChar(s[i])]
\* regex \w (also \d)
IsWordChar(c) == IsDigit(c) \/ IsUpper(c) \/ IsLower(c) \/ c = "_"
\* regex \s
IsSpace(c) == c = " "

\* s[i:j] with 1-based inclusive bounds; empty when j < i.
Slice(s, i, j) == IF j < i THEN << >> ELSE SubSeq(s, i, j)
\* s[i:i+len(t)] == t
MatchAt(s, i, t) == /\ i >= 1
                    /\ i + Len(t) - 1 <= Len(s)
                    /\ \A k \in 1..Len(t) : s[i + k - 1] = t[k]
\* t in s
Contains(s, t) == \E i \in 1..(Len(s) - Len(t) + 1) : MatchAt(s, i, t)
\* str.strip()
Strip(s) ==
    IF \A i \in 1..Len(s) : IsSpace(s[i]) THEN << >>
    ELSE LET first == CHOOSE i \in 1..Len(s) :
                        ~IsSpace(s[i]) /\ \A k \in 1..(i - 1) : IsSpace(s[k])
             last == CHOOSE i \in 1..Len(s) :
                        ~IsSpace(s[i]) /\ \A k \in (i + 1)..Len(s) : IsSpace(s[k])
         IN  SubSeq(s, first, last)
\* s with every character of the set removed (str.replace(c, ''), re.sub('[...]', ''))
Without(s, chars) == SelectSeq(s, LAMBDA c : c \notin chars)

RECURSIVE DigitsToInt(_)
\* int() of a run of digits
DigitsToInt(s) ==
    IF s = << >> THEN 0
    ELSE 10 * DigitsToInt(SubSeq(s, 1, Len(s) - 1)) + DigitVal(s[Len(s)])

RECURSIVE IntToDigits(_)
\* str() of a non-negative int
IntToDigits(n) ==
    IF n < 10 THEN <<DigitChars[n + 1]>>
    ELSE IntToDigits(n \div 10) \o <<DigitChars[(n % 10) + 1]>>

RECURSIVE Pow10(_)
Pow10(k) == IF k = 0 THEN 1 ELSE 10 * Pow10(k - 1)

Abs(x) == IF x < 0 THEN -x ELSE x

\* A decimal number m / 10^e in lowest form: no trailing zero in the
\* fraction.
RECURSIVE Dec(_, _)
Dec(m, e) == IF e > 0 /\ m % 10 = 0 THEN Dec(m \div 10, e - 1) ELSE [m |-> m, e |-> e]

\* Both numbers on the common scale 10^max(e).
Scaled(a, b) ==
    LET e == IF a.e > b.e THEN a.e ELSE b.e
    IN  [a |-> a.m * Pow10(e - a.e), b |-> b.m * Pow10(e - b.e), e |-> e]
DecLess(a, b) == LET c == Scaled(a, b) IN c.a < c.b
DecEq(a, b) == LET c == Scaled(a, b) IN c.a = c.b
DecSub(a, b) == LET c == Scaled(a, b) IN Dec(c.a - c.b, c.e)
DecMul(a, k) == Dec(a.m * k, a.e)
\* a > n for an integer n, without rescaling a
DecGreaterInt(a, n) ==
    LET p == Pow10(a.e)
        whole == IF a.m >= 0 THEN a.m \div p ELSE -((-a.m + p - 1) \div p)
    IN  whole > n \/ (whole = n /\ a.m - whole * p > 0)
\* a < n for an integer n
DecLessInt(a, n) ==
    LET p == Pow10(a.e)
        whole == IF a.m >= 0 THEN a.m \div p ELSE -((-a.m + p - 1) \div p)
    IN  whole < n

\* Rounding of m / 10^e to `places` decimals, ties to even: Decimal.__round__,
\* and round(float, places) except on a tie (a next digit of exactly 5), which
\* round() decides by the binary expansion of the float.
RoundDec(a, places) ==
    IF a.e <= places THEN a
    ELSE LET p == Pow10(a.e - places)
             neg == a.m < 0
             q == Abs(a.m) \div p
             r == Abs(a.m) % p
             up == (2 * r > p) \/ (2 * r = p /\ q % 2 = 1)
             n == IF up THEN q + 1 ELSE q
         IN  Dec(IF neg THEN -n ELSE n, places)

\* The numeral forms float() and Decimal() accept over the alphabet:
\* optional surrounding spaces, an optional sign, digits with at most one
\* point and at least one digit.  The result is [ok, m, e].
ParseNumeral(text) ==
    LET s == Strip(text)
        signed == Len(s) >= 1 /\ s[1] \in {"+", "-"}
        body == IF signed THEN Slice(s, 2, Len(s)) ELSE s
        points == { i \in 1..Len(body) : body[i] = "." }
        digits == Without(body, {"."})
        wellformed == /\ Len(digits) >= 1
                      /\ Cardinality(points) <= 1
                      /\ \A i \in 1..Len(digits) : IsDigit(digits[i])
        e == IF points = {} THEN 0 ELSE Len(body) - (CHOOSE i \in points : TRUE)
        m == DigitsToInt(digits)
        d == Dec(IF signed /\ s[1] = "-" THEN -m ELSE m, e)
    IN  IF wellformed THEN [ok |-> TRUE, m |-> d.m, e |-> d.e]
        ELSE [ok |-> FALSE, m |-> 0, e |-> 0]

\* str(x) of a float m / 10^e (repr keeps at least one fraction digit).
FloatToChars(a) ==
    LET p == Pow10(a.e)
        whole == Abs(a.m) \div p
        frac == Abs(a.m) % p
        fracDigits == IntToDigits(frac)
        pad == [i \in 1..(a.e - Len(fracDigits)) |-> "0"]
    IN  (IF a.m < 0 THEN <<"-">> ELSE << >>)
        \o IntToDigits(whole) \o <<".">>
        \o (IF a.e = 0 THEN <<"0">> ELSE pad \o fracDigits)

\* str(value) of a Python value
StrOf(value) ==
    CASE value.t = "str" -> value.s
      [] value.t = "int" -> (IF value.n < 0 THEN <<"-">> ELSE << >>) \o IntToDigits(Abs(value.n))
      [] value.t = "float" -> FloatToChars(value)
      [] value.t = "bool" -> IF value.b THEN <<"T", "r", "u", "e">>
                             ELSE <<"F", "a", "l", "s", "e">>
      [] value.t = "none" -> <<"N", "o", "n", "e">>

\* float(value): [ok, m, e].  float(str) parses the numeral; float of an
\* int or a float is the number; float(True) is 1.0; float(None) raises.
FloatOf(value) ==
    CASE value.t = "str" -> ParseNumeral(value.s)
      [] value.t = "int" -> [ok |-> TRUE, m |-> value.n, e |-> 0]
      [] value.t = "float" -> [ok |-> TRUE, m |-> value.m, e |-> value.e]
      [] value.t = "bool" -> [ok |-> TRUE, m |-> (IF value.b THEN 1 ELSE 0), e |-> 0]
      [] value.t = "none" -> [ok |-> FALSE, m |-> 0, e |-> 0]

\* Python truth value: None, '', 0, 0.0 and False are falsy.
Truthy(value) ==
    CASE value.t = "str" -> value.s # << >>
      [] value.t = "int" -> value.n # 0
      [] value.t = "float" -> value.m # 0
      [] value.t = "bool" -> value.b
      [] value.t = "none" -> FALSE

\* a == b for Python values: numbers and bools compare by numeric value,
\* strings with strings, everything else is unequal.
IsNumber(value) == value.t \in {"int", "float", "bool"}
PyEq(a, b) ==
    IF IsNumber(a) /\ IsNumber(b) THEN DecEq(FloatOf(a), FloatOf(b))
    ELSE IF a.t = "str" /\ b.t = "str" THEN a.s = b.s
    ELSE a.t = "none" /\ b.t = "none"

(***************************************************************************)
(* Binary floating point (the arithmetic of Python's float)                *)
(*                                                                         *)
(* The benchmark comparator decides a tolerance by float arithmetic, where *)
(* 1.05 - 1.0 is not 0.05.  A float is kept exactly: sign, a mantissa of   *)
(* 53 bits and the exponent of its last bit; every operation rounds its    *)
(* exact result to the nearest float, ties to even (IEEE 754 binary64).    *)
(* Mantissas need more than the 32 bits of a model integer: a natural      *)
(* number is a sequence of limbs, least significant first, without leading *)
(* zero limbs.  Infinities, NaN and subnormal numbers are out of reach of  *)
(* the values modelled.                                                    *)
(***************************************************************************)
LimbBits == 14
Radix == 2 ^ LimbBits
MantissaBits == 53

Limb(a, i) == IF i <= Len(a) THEN a[i] ELSE 0

RECURSIVE BigOfInt(_)
BigOfInt(n) == IF n = 0 THEN << >> ELSE <<n % Radix>> \o BigOfInt(n \div Radix)

RECURSIVE BigTrim(_)
BigTrim(a) ==
    IF a # << >> /\ a[Len(a)] = 0 THEN BigTrim(SubSeq(a, 1, Len(a) - 1)) ELSE a

RECURSIVE BigAddFrom(_, _, _, _)
BigAddFrom(a, b, i, carry) ==
    IF i > Len(a) /\ i > Len(b) THEN BigOfInt(carry)
    ELSE <<(Limb(a, i) + Limb(b, i) + carry) % Radix>>
         \o BigAddFrom(a, b, i + 1, (Limb(a, i) + Limb(b, i) + carry) \div Radix)
BigAdd(a, b) == BigAddFrom(a, b, 1, 0)

RECURSIVE BigSubFrom(_, _, _, _)
BigSubFrom(a, b, i, borrow) ==
    IF i > Len(a) THEN << >>
    ELSE <<(a[i] - Limb(b, i) - borrow + Radix) % Radix>>
         \o BigSubFrom(a, b, i + 1, IF a[i] - Limb(b, i) - borrow < 0 THEN 1 ELSE 0)
\* a - b for a >= b
BigSub(a, b) == BigTrim(BigSubFrom(a, b, 1, 0))

RECURSIVE BigCmpFrom(_, _, _)
BigCmpFrom(a, b, i) ==
    IF i = 0 THEN 0
    ELSE IF a[i] # b[i] THEN (IF a[i] < b[i] THEN -1 ELSE 1)
    ELSE BigCmpFrom(a, b, i - 1)
\* -1, 0 or 1 as a < b, a = b or a > b
BigCmp(a, b) ==
    IF Len(a) # Len(b) THEN (IF Len(a) < Len(b) THEN -1 ELSE 1)
    ELSE BigCmpFrom(a, b, Len(a))

RECURSIVE BigMulSmallFrom(_, _, _, _)
BigMulSmallFrom(a, k, i, carry) ==
    IF i > Len(a) THEN BigOfInt(carry)
    ELSE <<(a[i] * k + carry) % Radix>>
         \o BigMulSmallFrom(a, k, i + 1, (a[i] * k + carry) \div Radix)
\* a * k for 0 <= k <= Radix
BigMulSmall(a, k) == IF k = 0 THEN << >> ELSE BigMulSmallFrom(a, k, 1, 0)

\* a * 2^bits
BigShl(a, bits) ==
    IF a = << >> THEN << >>
    ELSE [i \in 1..(bits \div LimbBits) |-> 0] \o BigMulSmall(a, 2 ^ (bits % LimbBits))

BigIsOdd(a) == a # << >> /\ a[1] % 2 = 1

\* One step of binary long division: the next quotient bit of st.r by t.
BigDivStep(st, t) ==
    IF BigCmp(st.r, t) >= 0
    THEN [q |-> BigAdd(BigAdd(st.q, st.q), <<1>>), r |-> BigSub(st.r, t)]
    ELSE [q |-> BigAdd(st.q, st.q), r |-> st.r]

RECURSIVE BigDivBits(_, _, _)
\* Quotient and remainder of st.r by d, the quotient's bits i, i-1, .., 0
\* appended to st.q; st.r < d * 2^(i+1).  Each step's result is bound as a
\* value before the next step reads it.
BigDivBits(st, d, i) ==
    IF i < 0 THEN st
    ELSE CHOOSE done \in { BigDivBits(next, d, i - 1) :
                           next \in { BigDivStep(st, t) : t \in {BigShl(d, i)} } } : TRUE

\* n / d rounded to the nearest integer, ties to even; n < d * 2^bits.
BigRoundQuot(n, d, bits) ==
    LET Nearest(dm, twice) ==
            IF \/ BigCmp(twice, d) > 0
               \/ (BigCmp(twice, d) = 0 /\ BigIsOdd(dm.q))
            THEN BigAdd(dm.q, <<1>>) ELSE dm.q
    IN  CHOOSE q \in { Nearest(dm, BigAdd(dm.r, dm.r)) :
                       dm \in {BigDivBits([q |-> << >>, r |-> n], d, bits - 1)} } : TRUE

\* Number of bits of a > 0
BigBitLen(a) ==
    LimbBits * (Len(a) - 1)
    + (CHOOSE k \in 1..LimbBits : 2 ^ (k - 1) <= a[Len(a)] /\ a[Len(a)] < 2 ^ k)

\* The float 0.0
FZero == [neg |-> FALSE, m |-> << >>, x |-> 0]

\* The float nearest to (n / d) * 2^x, n > 0 and d > 0, negated if neg.  The
\* quotient is scaled into [2^52, 2^53) and rounded to an integer; a carry
\* out of the rounding moves the exponent.
FPacked(neg, q, xq) ==
    IF BigCmp(q, BigShl(<<1>>, MantissaBits)) = 0
    THEN [neg |-> neg, m |-> BigShl(<<1>>, MantissaBits - 1), x |-> xq + 1]
    ELSE [neg |-> neg, m |-> q, x |-> xq]
FQuot(neg, ns, ds, xq) ==
    CHOOSE f \in { FPacked(neg, q, xq) : q \in {BigRoundQuot(ns, ds, MantissaBits)} } : TRUE
\* (ns / ds) * 2^xq with 2^51 < ns / ds < 2^53; low: ns / ds < 2^52
FDoubled(neg, ns, ds, xq, low) ==
    FQuot(neg, IF low THEN BigAdd(ns, ns) ELSE ns, ds, IF low THEN xq - 1 ELSE xq)
FScaled(neg, ns, ds, xq) ==
    FDoubled(neg, ns, ds, xq, BigCmp(ns, BigShl(ds, MantissaBits - 1)) < 0)
FShifted(neg, nv, dv, x, t) ==
    CHOOSE f \in { FScaled(neg, ns, ds, x - t) :
                   ns \in {IF t > 0 THEN BigShl(nv, t) ELSE nv},
                   ds \in {IF t < 0 THEN BigShl(dv, -t) ELSE dv} } : TRUE
FRatio(neg, n, d, x) ==
    CHOOSE f \in { FShifted(neg, nv, dv, x,
                            (MantissaBits - 1) - (BigBitLen(nv) - BigBitLen(dv))) :
                   nv \in {n}, dv \in {d} } : TRUE

\* float('m / 10^e'): the float nearest to a decimal
FOfDec(a) ==
    IF a.m = 0 THEN FZero
    ELSE FRatio(a.m < 0, BigOfInt(Abs(a.m)), BigOfInt(Pow10(a.e)), 0)

\* |a| compared with |b|: -1, 0 or 1
FMagCmp(a, b) ==
    IF a.m = << >> \/ b.m = << >>
    THEN (IF a.m = b.m THEN 0 ELSE IF a.m = << >> THEN -1 ELSE 1)
    ELSE IF a.x >= b.x THEN BigCmp(BigShl(a.m, a.x - b.x), b.m)
    ELSE BigCmp(a.m, BigShl(b.m, b.x - a.x))

\* a compared with b: -1, 0 or 1.  Here and below the operands are bound as
\* values before they are used.
FSignCmp(av, bv, an, bn) ==
    IF an # bn THEN (IF an THEN -1 ELSE 1)
    ELSE IF an THEN -FMagCmp(av, bv) ELSE FMagCmp(av, bv)
FCmp(a, b) ==
    CHOOSE c \in { FSignCmp(av, bv, av.neg /\ av.m # << >>, bv.neg /\ bv.m # << >>) :
                   av \in {a}, bv \in {b} } : TRUE

\* abs(a), -a
FAbs(a) == [a EXCEPT !.neg = FALSE]
FNeg(a) == [a EXCEPT !.neg = ~a.neg]

\* a + b
\* am and bm are the mantissas at the common exponent x; c is |a| compared
\* with |b|, and the sign is that of the larger operand.
FSum(av, bv, am, bm, x, c) ==
    IF av.neg # bv.neg /\ c = 0 THEN FZero
    ELSE FRatio(IF c >= 0 THEN av.neg ELSE bv.neg,
                IF av.neg = bv.neg THEN BigAdd(am, bm)
                ELSE IF c > 0 THEN BigSub(am, bm) ELSE BigSub(bm, am),
                <<1>>, x)
FAligned(av, bv, x) ==
    CHOOSE f \in { FSum(av, bv, am, bm, x, BigCmp(am, bm)) :
                   am \in {BigShl(av.m, av.x - x)},
                   bm \in {BigShl(bv.m, bv.x - x)} } : TRUE
FAdd(a, b) ==
    CHOOSE f \in { IF av.m = << >> THEN bv
                   ELSE IF bv.m = << >> THEN av
                   ELSE FAligned(av, bv, IF av.x < bv.x THEN av.x ELSE bv.x) :
                   av \in {a}, bv \in {b} } : TRUE

\* a - b
FSub(a, b) == FAdd(a, FNeg(b))

\* a * k for an integer 0 < k <= Radix
FMulInt(a, k) ==
    CHOOSE f \in { IF av.m = << >> THEN FZero
                   ELSE FRatio(av.neg, BigMulSmall(av.m, k), <<1>>, av.x) : av \in {a} } : TRUE

\* a / b, b # 0
FDiv(a, b) ==
    CHOOSE f \in { IF av.m = << >> THEN FZero
                   ELSE FRatio(av.neg # bv.neg, av.m, bv.m, av.x - bv.x) :
                   av \in {a}, bv \in {b} } : TRUE

\* |a| * 100 rounded to the nearest integer, ties to even; |a| < 2^31.
FHundredths(a) ==
    IF a.m = << >> THEN << >>
    ELSE IF a.x >= 0 THEN BigShl(BigMulSmall(a.m, 100), a.x)
    ELSE BigRoundQuot(BigMulSmall(a.m, 100), BigShl(<<1>>, -a.x), 40)

\* round(a, 2): the float nearest to the rounded hundredths
FNearestHundredth(neg, k) ==
    IF k = << >> THEN FZero ELSE FRatio(neg, k, BigOfInt(100), 0)
FRound2(a) ==
    CHOOSE f \in { FNearestHundredth(av.neg, FHundredths(av)) : av \in {a} } : TRUE

(***************************************************************************)
(* datetime.strptime / strftime                                            *)
(***************************************************************************)
\* Month names of the C locale, lower case, January first.
FullMonthNames ==
    <<<<"j", "a", "n", "u", "a", "r", "y">>,
      <<"f", "e", "b", "r", "u", "a", "r", "y">>,
      <<"m", "a", "r", "c", "h">>,
      <<"a", "p", "r", "i", "l">>,
      <<"m", "a", "y">>,
      <<"j", "u", "n", "e">>,
      <<"j", "u", "l", "y">>,
      <<"a", "u", "g", "u", "s", "t">>,
      <<"s", "e", "p", "t", "e", "m", "b", "e", "r">>,
      <<"o", "c", "t", "o", "b", "e", "r">>,
      <<"n", "o", "v", "e", "m", "b", "e", "r">>,
      <<"d", "e", "c", "e", "m", "b", "e", "r">>>>
AbbrMonthNames ==
    <<<<"j", "a", "n">>,
      <<"f", "e", "b">>,
      <<"m", "a", "r">>,
      <<"a", "p", "r">>,
      <<"m", "a", "y">>,
      <<"j", "u", "n">>,
      <<"j", "u", "l">>,
      <<"a", "u", "g">>,
      <<"s", "e", "p">>,
      <<"o", "c", "t">>,
      <<"n", "o", "v">>,
      <<"d", "e", "c">>>>
\* Order in which the regex of %B / %b tries the names (longest first).
FullMonthOrder == <<9, 2, 11, 12, 1, 10, 8, 3, 4, 6, 7, 5>>
AbbrMonthOrder == <<1, 2, 3, 4, 5, 6, 7, 8, 9, 10, 11, 12>>

IsLeap(y) == (y % 4 = 0 /\ y % 100 # 0) \/ y % 400 = 0
DaysInMonth(y, m) ==
    IF m = 2 THEN (IF IsLeap(y) THEN 29 ELSE 28)
    ELSE IF m \in {4, 6, 9, 11} THEN 30 ELSE 31

\* The alternatives, in the order the regex tries them, with which one
\* directive (or literal character) of a format matches text s at position
\* i: a sequence of [len, key, val].
NumAlt(s, i, n, key, lo, hi) ==
    IF /\ i + n - 1 <= Len(s)
       /\ \A k \in i..(i + n - 1) : IsDigit(s[k])
       /\ lo <= DigitsToInt(SubSeq(s, i, i + n - 1))
       /\ DigitsToInt(SubSeq(s, i, i + n - 1)) <= hi
    THEN << [len |-> n, key |-> key, val |-> DigitsToInt(SubSeq(s, i, i + n - 1))] >>
    ELSE << >>

RECURSIVE NameAlts(_, _, _, _, _)
NameAlts(s, i, names, order, k) ==
    IF k > Len(order) THEN << >>
    ELSE (IF MatchAt(Lower(s), i, names[order[k]])
          THEN << [len |-> Len(names[order[k]]), key |-> "month", val |-> order[k]] >>
          ELSE << >>)
         \o NameAlts(s, i, names, order, k + 1)

RECURSIVE SpaceAlts(_, _, _)
\* \s+ : the longest run of spaces first
SpaceAlts(s, i, n) ==
    IF n = 0 THEN << >>
    ELSE (IF \A k \in i..(i + n - 1) : k <= Len(s) /\ IsSpace(s[k])
          THEN << [len |-> n, key |-> "none", val |-> 0] >> ELSE << >>)
         \o SpaceAlts(s, i, n - 1)

Alternatives(directive, s, i) ==
    CASE directive = "%m" ->
            \* (1[0-2]|0[1-9]|[1-9])
            NumAlt(s, i, 2, "month", 1, 12)
            \o NumAlt(s, i, 1, "month", 1, 9)
      [] directive = "%d" ->
            \* (3[01]|[12]\d|0[1-9]|[1-9]| [1-9])
            NumAlt(s, i, 2, "day", 1, 31)
            \o NumAlt(s, i, 1, "day", 1, 9)
            \o (IF i <= Len(s) /\ s[i] = " "
                THEN LET one == NumAlt(s, i + 1, 1, "day", 1, 9)
                     IN  IF one = << >> THEN << >>
                         ELSE << [one[1] EXCEPT !.len = 2] >>
                ELSE << >>)
      [] directive = "%Y" -> NumAlt(s, i, 4, "year", 0, 9999)
      [] directive = "%y" ->
            NumAlt(s, i, 2, "year", 0, 99)
      [] directive = "%B" -> NameAlts(s, i, FullMonthNames, FullMonthOrder, 1)
      [] directive = "%b" -> NameAlts(s, i, AbbrMonthNames, AbbrMonthOrder, 1)
      [] directive = "%H" ->
            \* (2[0-3]|[0-1]\d|\d)
            NumAlt(s, i, 2, "none", 0, 23) \o NumAlt(s, i, 1, "none", 0, 9)
      [] directive = "%M" ->
            \* ([0-5]\d|\d)
            NumAlt(s, i, 2, "none", 0, 59) \o NumAlt(s, i, 1, "none", 0, 9)
      [] directive = "%S" ->
            \* (6[0-1]|[0-5]\d|\d)
            NumAlt(s, i, 2, "second", 0, 61) \o NumAlt(s, i, 1, "second", 0, 9)
      [] directive = "%f" ->
            \* ([0-9]{1,6})
            NumAlt(s, i, 6, "none", 0, 999999) \o NumAlt(s, i, 5, "none", 0, 99999)
            \o NumAlt(s, i, 4, "none", 0, 9999) \o NumAlt(s, i, 3, "none", 0, 999)
            \o NumAlt(s, i, 2, "none", 0, 99) \o NumAlt(s, i, 1, "none", 0, 9)
      [] directive = " " -> SpaceAlts(s, i, Len(s) - i + 1)
      \* a literal character; the regex is compiled with re.IGNORECASE
      [] OTHER -> IF i <= Len(s) /\ LowerChar(s[i]) = LowerChar(directive)
                  THEN << [len |-> 1, key |-> "none", val |-> 0] >> ELSE << >>

RECURSIVE RegexMatches(_, _, _, _)
RECURSIVE RegexMatchesFrom(_, _, _, _, _, _)
\* All matches of the format's regex on a prefix of s[i..], in the order the
\* regex engine finds them; acc holds the fields matched so far.
RegexMatches(fmt, s, i, acc) ==
    IF fmt = << >> THEN << [acc EXCEPT !.end = i] >>
    ELSE RegexMatchesFrom(fmt, s, i, acc, Alternatives(Head(fmt), s, i), 1)
RegexMatchesFrom(fmt, s, i, acc, alts, k) ==
    IF k > Len(alts) THEN << >>
    ELSE LET a == alts[k]
             acc2 == CASE a.key = "year" -> [acc EXCEPT !.year = a.val]
                       [] a.key = "month" -> [acc EXCEPT !.month = a.val]
                       [] a.key = "day" -> [acc EXCEPT !.day = a.val]
                       [] a.key = "second" -> [acc EXCEPT !.second = a.val]
                       [] OTHER -> acc
         IN  RegexMatches(Tail(fmt), s, i + a.len, acc2)
             \o RegexMatchesFrom(fmt, s, i, acc, alts, k + 1)

\* datetime.strptime(s, fmt): [ok, year, month, day].  The first match of
\* the regex is taken; it must cover the whole text ("unconverted data
\* remains" otherwise) and name a real calendar day and a second below 60.
\* A two-digit year is 20yy up to 68 and 19yy from 69 on.
Strptime(s, fmt) ==
    LET NoDate == [ok |-> FALSE, year |-> 0, month |-> 0, day |-> 0]
        Date(m, year) ==
            IF /\ m.end = Len(s) + 1
               /\ year >= 1
               /\ m.day <= DaysInMonth(year, m.month)
               /\ m.second <= 59
            THEN [ok |-> TRUE, year |-> year, month |-> m.month, day |-> m.day]
            ELSE NoDate
        First(m) ==
            Date(m, IF \E k \in 1..Len(fmt) : fmt[k] = "%y"
                    THEN (IF m.year <= 68 THEN 2000 + m.year ELSE 1900 + m.year)
                    ELSE m.year)
        Found(ms) == IF ms = << >> THEN NoDate ELSE First(ms[1])
    IN  Found(RegexMatches(fmt, s, 1, [year |-> 1900, month |-> 1, day |-> 1, second |-> 0, end |-> 0]))

\* Zero-padded decimal of width n.
Padded(v, n) ==
    LET d == IntToDigits(v) IN [i \in 1..(n - Len(d)) |-> "0"] \o d
\* dt.strftime('%Y-%m-%d'); the C library writes the year without padding.
StrftimeISO(dt) ==
    IntToDigits(dt.year) \o <<"-">> \o Padded(dt.month, 2) \o <<"-">> \o Padded(dt.day, 2)

\* Days from 0001-01-01 to the date (date.toordinal()).
RECURSIVE DaysBeforeMonth(_, _)
DaysBeforeMonth(y, m) == IF m = 1 THEN 0 ELSE DaysBeforeMonth(y, m - 1) + DaysInMonth(y, m - 1)
ToOrdinal(dt) ==
    LET y == dt.year - 1
    IN  y * 365 + y \div 4 - y \div 100 + y \div 400 + DaysBeforeMonth(dt.year, dt.month) + dt.day

FormatISO == <<"%Y", "-", "%m", "-", "%d">>

(***************************************************************************)
(* Field schema (schemas/field_schema.py)                                  *)
(***************************************************************************)
\* The field paths of LEASE_FIELDS the model works with.
SchemaPaths == {"property.rentable_area",
                "property.usable_area",
                "dates.commencement_date",
                "dates.expiration_date",
                "dates.lease_term_months",
                "rent.base_rent_monthly",
                "rent.base_rent_annual",
                "rent.rent_per_sf_annual",
                "operating_expenses.tenant_share_percentage",
                "parties.tenant_name",
                "property.address",
                "property.suite_unit"}
\* The characters of a field path.
PathChars(field_path) ==
    CASE field_path = "property.rentable_area" ->
            <<"p", "r", "o", "p", "e", "r", "t", "y", ".", "r", "e", "n", "t", "a", "b", "l", "e", "_", "a", "r", "e", "a">>
      [] field_path = "property.usable_area" ->
            <<"p", "r", "o", "p", "e", "r", "t", "y", ".", "u", "s", "a", "b", "l", "e", "_", "a", "r", "e", "a">>
      [] field_path = "dates.commencement_date" ->
            <<"d", "a", "t", "e", "s", ".", "c", "o", "m", "m", "e", "n", "c", "e", "m", "e", "n", "t", "_", "d", "a", "t", "e">>
      [] field_path = "dates.expiration_date" ->
            <<"d", "a", "t", "e", "s", ".", "e", "x", "p", "i", "r", "a", "t", "i", "o", "n", "_", "d", "a", "t", "e">>
      [] field_path = "dates.lease_term_months" ->
            <<"d", "a", "t", "e", "s", ".", "l", "e", "a", "s", "e", "_", "t", "e", "r", "m", "_", "m", "o", "n", "t", "h", "s">>
      [] field_path = "rent.base_rent_monthly" ->
            <<"r", "e", "n", "t", ".", "b", "a", "s", "e", "_", "r", "e", "n", "t", "_", "m", "o", "n", "t", "h", "l", "y">>
      [] field_path = "rent.base_rent_annual" ->
            <<"r", "e", "n", "t", ".", "b", "a", "s", "e", "_", "r", "e", "n", "t", "_", "a", "n", "n", "u", "a", "l">>
      [] field_path = "rent.rent_per_sf_annual" ->
            <<"r", "e", "n", "t", ".", "r", "e", "n", "t", "_", "p", "e", "r", "_", "s", "f", "_", "a", "n", "n", "u", "a", "l">>
      [] field_path = "operating_expenses.tenant_share_percentage" ->
            <<"o", "p", "e", "r", "a", "t", "i", "n", "g", "_", "e", "x", "p", "e", "n", "s", "e", "s", ".", "t", "e", "n", "a", "n", "t", "_", "s", "h", "a", "r", "e", "_", "p", "e", "r", "c", "e", "n", "t", "a", "g", "e">>
      [] field_path = "parties.tenant_name" ->
            <<"p", "a", "r", "t", "i", "e", "s", ".", "t", "e", "n", "a", "n", "t", "_", "n", "a", "m", "e">>
      [] field_path = "property.address" ->
            <<"p", "r", "o", "p", "e", "r", "t", "y", ".", "a", "d", "d", "r", "e", "s", "s">>
      [] field_path = "property.suite_unit" ->
            <<"p", "r", "o", "p", "e", "r", "t", "y", ".", "s", "u", "i", "t", "e", "_", "u", "n", "i", "t">>
\* get_field_by_path(path)['type'].value
SchemaType(field_path) ==
    CASE field_path = "property.rentable_area" -> "area"
      [] field_path = "property.usable_area" -> "area"
      [] field_path = "dates.commencement_date" -> "date"
      [] field_path = "dates.expiration_date" -> "date"
      [] field_path = "dates.lease_term_months" -> "number"
      [] field_path = "rent.base_rent_monthly" -> "currency"
      [] field_path = "rent.base_rent_annual" -> "currency"
      [] field_path = "rent.rent_per_sf_annual" -> "currency"
      [] field_path = "operating_expenses.tenant_share_percentage" -> "percentage"
      [] field_path = "parties.tenant_name" -> "text"
      [] field_path = "property.address" -> "address"
      [] field_path = "property.suite_unit" -> "text"
\* word in field_path.lower()
PathHas(field_path, word) == Contains(Lower(PathChars(field_path)), word)

(***************************************************************************)
(* ValidationService (services/validation_service.py)                      *)
(***************************************************************************)
Max(a, b) == IF a > b THEN a ELSE b
Min(a, b) == IF a < b THEN a ELSE b

\* ValidationResult.__init__: the adjustment (hundredths) is clamped to
\* [-0.2, +0.2] when the result is constructed.
ValidationResult(value, warnings, confidence_adjustment) ==
    [value |-> value, warnings |-> warnings,
     confidence_adjustment |-> Max(-20, Min(20, confidence_adjustment))]

\* A warning: the fixed text of the message and the values quoted in it,
\* as texts.
Warning(text, quoted) == [w |-> text, a |-> quoted]

\* The formats validate_date tries, in order.
DateFormats ==
    << <<"%m", "/", "%d", "/", "%Y">>, <<"%m", "/", "%d", "/", "%y">>,
       <<"%d", "/", "%m", "/", "%Y">>, <<"%d", "/", "%m", "/", "%y">>,
       <<"%B", " ", "%d", ",", " ", "%Y">>,
       <<"%b", " ", "%d", ",", " ", "%Y">>,
       <<"%Y", "/", "%m", "/", "%d">>,
       <<"%m", "-", "%d", "-", "%Y">>,
       <<"%Y", "%m", "%d">> >>

\* re.match(r'^\d{4}-\d{2}-\d{2}$', s)
LooksISO(s) ==
    /\ Len(s) = 10
    /\ s[5] = "-" /\ s[8] = "-"
    /\ \A i \in {1, 2, 3, 4, 6, 7, 9, 10} : IsDigit(s[i])

\* ValidationService.validate_date
validate_date(value, field_path) ==
    LET Normalized(value_str, normalized) ==
            ValidationResult(PyStr(normalized),
              <<Warning("Date format normalized", <<value_str, normalized>>)>>, 0)
        \* dates[k] is strptime(value_str, fmt) for the k-th format; the first
        \* format that parses wins
        Tried(value_str, dates) ==
            IF \E k \in DOMAIN dates : dates[k].ok
            THEN Normalized(value_str,
                   StrftimeISO(dates[CHOOSE k \in DOMAIN dates :
                                       dates[k].ok /\ \A j \in 1..(k - 1) : ~dates[j].ok]))
            ELSE ValidationResult(PyStr(value_str),
                   <<Warning("Could not parse date", <<value_str>>)>>, -20)
        Checked(value_str, iso) ==
            IF LooksISO(value_str)
            THEN IF iso.ok
                 THEN ValidationResult(PyStr(value_str), << >>, 0)
                 ELSE ValidationResult(PyNone,
                        <<Warning("Invalid date format", <<value_str>>)>>, -20)
            ELSE Tried(value_str,
                       [k \in 1..Len(DateFormats) |-> Strptime(value_str, DateFormats[k])])
        Text(value_str) == Checked(value_str, Strptime(value_str, FormatISO))
    IN  Text(Strip(StrOf(value)))

\* ValidationService.validate_currency
validate_currency(value, field_path) ==
    LET Shown(value_str, normalized, shown) ==
            ValidationResult(PyFloat(normalized.m, normalized.e),
              (IF normalized.m < 0
               THEN <<Warning("Negative currency value", <<shown>>)>> ELSE << >>)
              \o (IF DecGreaterInt(normalized, 100000000)
                  THEN <<Warning("Unusually large currency value", <<shown>>)>> ELSE << >>)
              \o (IF value_str # shown
                  THEN <<Warning("Currency normalized", <<value_str, shown>>)>> ELSE << >>),
              0)
        \* normalized = float(round(amount, 2))
        Rounded(value_str, normalized) == Shown(value_str, normalized, FloatToChars(normalized))
        \* amount = Decimal(cleaned)
        Parsed(value_str, amount) ==
            IF amount.ok THEN Rounded(value_str, RoundDec(amount, 2))
            ELSE ValidationResult(value,
                   <<Warning("Could not parse currency", <<StrOf(value)>>)>>, -20)
        \* cleaned = re.sub(r'[$,...]', '', value_str): the dollar sign and the
        \* comma are the listed characters that belong to the alphabet
        Text(value_str) == Parsed(value_str, ParseNumeral(Without(value_str, {"$", ","})))
    IN  Text(Strip(StrOf(value)))

\* ValidationService.validate_number
validate_number(value, field_path) ==
    LET Shown(num, shown) ==
            ValidationResult(PyFloat(num.m, num.e),
              (IF PathHas(field_path, <<"m", "o", "n", "t", "h">>)
                  /\ (num.m < 0 \/ DecGreaterInt(num, 1200))
               THEN <<Warning("Unusual month value", <<shown>>)>> ELSE << >>)
              \o (IF ~PyEq(value, PyFloat(num.m, num.e))
                  THEN <<Warning("Number normalized", <<StrOf(value), shown>>)>> ELSE << >>),
              0)
        \* num = float(cleaned)
        Parsed(num) ==
            IF num.ok THEN Shown(num, FloatToChars(num))
            ELSE ValidationResult(value,
                   <<Warning("Could not parse number", <<StrOf(value)>>)>>, -20)
    IN  Parsed(ParseNumeral(Strip(Without(StrOf(value), {","}))))

\* ValidationService.validate_percentage
validate_percentage(value, field_path) ==
    LET Result(given_as_percentage, pct, rounded, shown) ==
            ValidationResult(PyFloat(rounded.m, rounded.e),
              (IF given_as_percentage
               THEN <<Warning("Percentage converted", <<StrOf(value), shown>>)>>
               ELSE << >>)
              \o (IF pct.m < 0 \/ DecGreaterInt(pct, 1)
                  THEN <<Warning("Percentage outside valid range", <<shown>>)>>
                  ELSE << >>),
              0)
        Divided(given_as_percentage, pct) ==
            Result(given_as_percentage, pct, RoundDec(pct, 4), FloatToChars(pct))
        \* pct = pct / 100 when pct > 1
        Given(parsed, given_as_percentage) ==
            Divided(given_as_percentage,
                    IF given_as_percentage THEN Dec(parsed.m, parsed.e + 2)
                    ELSE Dec(parsed.m, parsed.e))
        Parsed(parsed) ==
            IF parsed.ok THEN Given(parsed, DecGreaterInt(parsed, 1))
            ELSE ValidationResult(value,
                   <<Warning("Could not parse percentage", <<StrOf(value)>>)>>, -20)
    IN  Parsed(ParseNumeral(Strip(Without(StrOf(value), {"%"}))))

\* Length of the match of  sf|square\s+feet|sq\.?\s*ft\.?|rsf|usf  at
\* position i of the lower-cased text s (0: no match).  The alternatives
\* are tried in this order; optional parts are taken when present.
RECURSIVE SpacesAt(_, _)
\* number of spaces starting at position i
SpacesAt(s, i) == IF i <= Len(s) /\ IsSpace(s[i]) THEN 1 + SpacesAt(s, i + 1) ELSE 0
UnitTokenAt(s, i) ==
    LET square == <<"s", "q", "u", "a", "r", "e">>
        feet == <<"f", "e", "e", "t">>
        gap == SpacesAt(s, i + 6)
        dot1 == IF MatchAt(s, i + 2, <<".">>) THEN 1 ELSE 0
        gap2 == SpacesAt(s, i + 2 + dot1)
        ftEnd == i + 2 + dot1 + gap2 + 2
        dot2 == IF MatchAt(s, ftEnd, <<".">>) THEN 1 ELSE 0
    IN  IF MatchAt(s, i, <<"s", "f">>) THEN 2
        ELSE IF MatchAt(s, i, square) /\ gap >= 1 /\ MatchAt(s, i + 6 + gap, feet)
        THEN 6 + gap + 4
        ELSE IF MatchAt(s, i, <<"s", "q">>) /\ MatchAt(s, i + 2 + dot1 + gap2, <<"f", "t">>)
        THEN 2 + dot1 + gap2 + 2 + dot2
        ELSE IF MatchAt(s, i, <<"r", "s", "f">>) \/ MatchAt(s, i, <<"u", "s", "f">>) THEN 3
        ELSE 0

RECURSIVE StripUnits(_, _)
\* re.sub(r'(?i)\s*(sf|square\s+feet|sq\.?\s*ft\.?|rsf|usf)', '', s) from
\* position i on: at each position the leading spaces are taken greedily
\* and given back one by one until a unit token follows.
StripUnits(s, i) ==
    IF i > Len(s) THEN << >>
    ELSE LET lead == SpacesAt(s, i)
             hits == { n \in 0..lead : UnitTokenAt(Lower(s), i + n) > 0 }
             n == CHOOSE n \in hits : \A k \in hits : n >= k
         IN  IF hits # {}
             THEN StripUnits(s, i + n + UnitTokenAt(Lower(s), i + n))
             ELSE <<s[i]>> \o StripUnits(s, i + 1)

\* ValidationService.validate_area
validate_area(value, field_path) ==
    LET Result(value_str, area, shown, small) ==
            ValidationResult(PyFloat(area.m, area.e),
              (IF DecLessInt(area, 1) THEN <<Warning("Very small area", <<shown>>)>>
               ELSE IF DecGreaterInt(area, 10000000)
               THEN <<Warning("Very large area", <<shown>>)>> ELSE << >>)
              \o (IF PathHas(field_path, <<"r", "e", "n", "t", "a", "b", "l", "e">>)
                  THEN (IF small THEN <<Warning("Rentable area suspiciously small", << >>)>>
                        ELSE << >>)
                  ELSE IF PathHas(field_path, <<"u", "s", "a", "b", "l", "e">>)
                  THEN (IF small THEN <<Warning("Usable area suspiciously small", << >>)>>
                        ELSE << >>)
                  ELSE << >>)
              \o (IF value_str # shown
                  THEN <<Warning("Area normalized", <<value_str, shown>>)>> ELSE << >>),
              0)
        \* area = float(cleaned)
        Parsed(value_str, area) ==
            IF area.ok THEN Result(value_str, area, FloatToChars(area), DecLessInt(area, 10))
            ELSE ValidationResult(value,
                   <<Warning("Could not parse area", <<value_str>>)>>, -20)
        Text(value_str) ==
            Parsed(value_str, ParseNumeral(Strip(Without(StripUnits(value_str, 1), {","}))))
    IN  Text(StrOf(value))

\* The members of true_values / false_values of validate_boolean.
true_values ==
    {PyStr(<<"t", "r", "u", "e">>), PyStr(<<"t">>), PyStr(<<"y", "e", "s">>), PyStr(<<"y">>),
     PyStr(<<"1">>), PyStr(<<"T", "r", "u", "e">>), PyBool(TRUE), PyInt(1)}
false_values ==
    {PyStr(<<"f", "a", "l", "s", "e">>), PyStr(<<"f">>), PyStr(<<"n", "o">>), PyStr(<<"n">>),
     PyStr(<<"0">>), PyStr(<<"F", "a", "l", "s", "e">>), PyBool(FALSE), PyInt(0)}

\* ValidationService.validate_boolean (value in set: equality of Python values)
validate_boolean(value, field_path) ==
    IF \E v \in true_values : PyEq(value, v) THEN ValidationResult(PyBool(TRUE), << >>, 0)
    ELSE IF \E v \in false_values : PyEq(value, v) THEN ValidationResult(PyBool(FALSE), << >>, 0)
    ELSE ValidationResult(PyNone,
           <<Warning("Could not parse boolean", <<StrOf(value)>>)>>, -20)

\* regex \b between positions i-1 and i of s
Boundary(s, i) ==
    LET before == i > 1 /\ IsWordChar(s[i - 1])
        after == i <= Len(s) /\ IsWordChar(s[i])
    IN  before # after
\* re.search(r'(?i)(suite|ste\.?|unit|#)\s*[\w\d-]+', s)
HasSuiteToken(s) ==
    \E i \in 1..Len(s) :
        \E kw \in {<<"s", "u", "i", "t", "e">>, <<"s", "t", "e", ".">>, <<"s", "t", "e">>,
                   <<"u", "n", "i", "t">>, <<"#">>} :
            /\ MatchAt(Lower(s), i, kw)
            /\ LET j == i + Len(kw) + SpacesAt(s, i + Len(kw))
               IN  j <= Len(s) /\ (IsWordChar(s[j]) \/ s[j] = "-")
\* re.search(r'\b\d+\b', s)
HasNumber(s) ==
    \E i \in 1..Len(s) : \E j \in i..Len(s) :
        /\ \A k \in i..j : IsDigit(s[k])
        /\ Boundary(s, i) /\ Boundary(s, j + 1)
\* re.search(r'\b[A-Z]{2}\b', s)
HasState(s) ==
    \E i \in 1..(Len(s) - 1) :
        IsUpper(s[i]) /\ IsUpper(s[i + 1]) /\ Boundary(s, i) /\ Boundary(s, i + 2)
\* re.search(r'\b\d{5}(-\d{4})?\b', s)
HasZip(s) ==
    \E i \in 1..(Len(s) - 4) :
        /\ \A k \in i..(i + 4) : IsDigit(s[k])
        /\ Boundary(s, i)
        /\ \/ Boundary(s, i + 5)
           \/ /\ MatchAt(s, i + 5, <<"-">>)
              /\ i + 9 <= Len(s)
              /\ \A k \in (i + 6)..(i + 9) : IsDigit(s[k])
              /\ Boundary(s, i + 10)

\* ValidationService.validate_address
validate_address(value, field_path) ==
    LET value_str == Strip(StrOf(value))
    IN  ValidationResult(PyStr(value_str),
          (IF HasSuiteToken(value_str) /\ ~PathHas(field_path, <<"s", "u", "i", "t", "e">>)
           THEN <<Warning("Suite/unit found in address", << >>)>> ELSE << >>)
          \o (IF ~HasNumber(value_str)
              THEN <<Warning("Address missing street number", << >>)>> ELSE << >>)
          \o (IF ~HasState(value_str)
              THEN <<Warning("Address missing state abbreviation", << >>)>> ELSE << >>)
          \o (IF ~HasZip(value_str)
              THEN <<Warning("Address missing ZIP code", << >>)>> ELSE << >>),
          0)

\* ValidationService.validate_text
validate_text(value, field_path) ==
    LET text == Strip(StrOf(value))
    IN  ValidationResult(PyStr(text),
          IF Len(text) < 2 /\ PathHas(field_path, <<"n", "a", "m", "e">>)
          THEN <<Warning("Suspiciously short", <<PathChars(field_path), text>>)>>
          ELSE << >>,
          0)

\* datetime.strptime(str(value), '%Y-%m-%d')
ParseISO(value) == Strptime(StrOf(value), FormatISO)

\* The five rules of ValidationService.check_consistency.  Each is keyed by
\* one field path and gives its warnings (none when a sibling is missing,
\* falsy, or raises in float() / strptime()).
ExpirationRule(value, all_extractions) ==
    LET Dates(exp, comm) ==
            IF exp.ok /\ comm.ok /\ ToOrdinal(exp) <= ToOrdinal(comm)
            THEN <<Warning("Expiration date should be after commencement date", << >>)>>
            ELSE << >>
        Sibling(comm_date) ==
            IF Truthy(comm_date) THEN Dates(ParseISO(value), ParseISO(comm_date)) ELSE << >>
    IN  Sibling(Get(all_extractions, "dates.commencement_date"))

AnnualRule(value, all_extractions) ==
    LET \* abs(actual - expected) / expected > 0.05, i.e. |diff| > expected / 20
        \* (integers on one scale: |diff| > expected div 20)
        Differ(m, expected_annual, actual_annual, c) ==
            IF Abs(c.a) > c.b \div 20
            THEN <<Warning("Annual rent doesn't match monthly x 12",
                           <<FloatToChars(actual_annual), FloatToChars(m),
                             FloatToChars(expected_annual)>>)>>
            ELSE << >>
        \* a zero expected value raises ZeroDivisionError, a negative one
        \* gives a negative ratio
        Floats(m, expected_annual, actual_annual) ==
            IF m.ok /\ actual_annual.ok /\ expected_annual.m > 0
            THEN Differ(m, expected_annual, actual_annual,
                        Scaled(DecSub(actual_annual, expected_annual), expected_annual))
            ELSE << >>
        Monthly(m) == Floats(m, DecMul(m, 12), FloatOf(value))
        Sibling(monthly) == IF Truthy(monthly) THEN Monthly(FloatOf(monthly)) ELSE << >>
    IN  Sibling(Get(all_extractions, "rent.base_rent_monthly"))

RentPerSfRule(value, all_extractions) ==
    LET \* expected = a / area; |actual - expected| / expected > 0.05 is
        \* 20 * |actual * area - a| > |a| when expected > 0
        Differ(actual, c) ==
            IF Abs(c.a) > Abs(c.b) \div 20
            THEN <<Warning("Rent/SF doesn't match annual rent / SF",
                           <<FloatToChars(actual)>>)>>
            ELSE << >>
        Floats(a, area, actual) ==
            IF /\ a.ok /\ area.ok /\ area.m # 0 /\ actual.ok
               /\ (a.m > 0 /\ area.m > 0) \/ (a.m < 0 /\ area.m < 0)
            THEN Differ(actual,
                        Scaled(DecSub(Dec(actual.m * area.m, actual.e + area.e), a), a))
            ELSE << >>
        Siblings(annual_rent, sf) ==
            IF Truthy(annual_rent) /\ Truthy(sf)
            THEN Floats(FloatOf(annual_rent), FloatOf(sf), FloatOf(value))
            ELSE << >>
    IN  Siblings(Get(all_extractions, "rent.base_rent_annual"),
                 Get(all_extractions, "property.rentable_area"))

UsableRule(value, all_extractions) ==
    LET Floats(rentable, u, r) ==
            IF u.ok /\ r.ok /\ DecLess(r, u)
            THEN <<Warning("Usable area greater than rentable area",
                           <<StrOf(value), StrOf(rentable)>>)>>
            ELSE << >>
        Sibling(rentable) ==
            IF Truthy(rentable) THEN Floats(rentable, FloatOf(value), FloatOf(rentable))
            ELSE << >>
    IN  Sibling(Get(all_extractions, "property.rentable_area"))

TermRule(value, all_extractions) ==
    LET \* |days / 30.44 - stated| > 1, multiplied by 3044 and by the scale
        \* of the stated number
        Differ(days, stated, scale) ==
            IF Abs(100 * days * scale - 3044 * stated.m) > 3044 * scale
            THEN <<Warning("Stated term differs from calculated term",
                           <<FloatToChars(stated)>>)>>
            ELSE << >>
        Dates(comm_dt, exp_dt, stated) ==
            IF comm_dt.ok /\ exp_dt.ok /\ stated.ok
            THEN Differ(ToOrdinal(exp_dt) - ToOrdinal(comm_dt), stated, Pow10(stated.e))
            ELSE << >>
        Siblings(comm, exp) ==
            IF Truthy(comm) /\ Truthy(exp)
            THEN Dates(ParseISO(comm), ParseISO(exp), FloatOf(value))
            ELSE << >>
    IN  Siblings(Get(all_extractions, "dates.commencement_date"),
                 Get(all_extractions, "dates.expiration_date"))

\* ValidationService.check_consistency
check_consistency(field_path, value, all_extractions) ==
    (IF field_path = "dates.expiration_date" /\ Truthy(value)
     THEN ExpirationRule(value, all_extractions) ELSE << >>)
    \o (IF field_path = "rent.base_rent_annual" /\ Truthy(value)
        THEN AnnualRule(value, all_extractions) ELSE << >>)
    \o (IF field_path = "rent.rent_per_sf_annual" /\ Truthy(value)
        THEN RentPerSfRule(value, all_extractions) ELSE << >>)
    \o (IF field_path = "property.usable_area" /\ Truthy(value)
        THEN UsableRule(value, all_extractions) ELSE << >>)
    \o (IF field_path = "dates.lease_term_months" /\ Truthy(value)
        THEN TermRule(value, all_extractions) ELSE << >>)

\* field_type.lower() for the type names of the schema written in upper or
\* lower case; other names are taken as they are.
LowerTypeName(field_type) ==
    CASE field_type = "DATE" -> "date"
      [] field_type = "CURRENCY" -> "currency"
      [] field_type = "NUMBER" -> "number"
      [] field_type = "PERCENTAGE" -> "percentage"
      [] field_type = "AREA" -> "area"
      [] field_type = "BOOLEAN" -> "boolean"
      [] field_type = "ADDRESS" -> "address"
      [] field_type = "TEXT" -> "text"
      [] OTHER -> field_type

\* The validators dict of validate_and_normalize; a type name that is not a
\* key falls back to validate_text.
Validator(field_type, value, field_path) ==
    CASE field_type = "date" -> validate_date(value, field_path)
      [] field_type = "currency" -> validate_currency(value, field_path)
      [] field_type = "number" -> validate_number(value, field_path)
      [] field_type = "percentage" -> validate_percentage(value, field_path)
      [] field_type = "area" -> validate_area(value, field_path)
      [] field_type = "boolean" -> validate_boolean(value, field_path)
      [] field_type = "address" -> validate_address(value, field_path)
      [] OTHER -> validate_text(value, field_path)

\* "No sibling map": all_extractions = None.
NoExtractions == EmptyDict

\* ValidationService.validate_and_normalize.  all_extractions is a dict, or
\* NoExtractions for None; an empty dict is falsy as well.  The consistency
\* penalty is subtracted from the attribute of the finished result: it does
\* not pass through ValidationResult.__init__ again.
validate_and_normalize(field_path, value, field_type, all_extractions) ==
    LET Penalized(checked, consistency_warnings) ==
            [value |-> checked.value,
             warnings |-> checked.warnings \o consistency_warnings,
             confidence_adjustment |->
                 IF consistency_warnings # << >>
                 THEN checked.confidence_adjustment - 10
                 ELSE checked.confidence_adjustment]
        Validated(checked) ==
            IF DOMAIN all_extractions # {} /\ checked.value # PyNone
            THEN Penalized(checked,
                           check_consistency(field_path, checked.value, all_extractions))
            ELSE checked
    IN  IF value = PyNone THEN ValidationResult(PyNone, << >>, 0)
        ELSE Validated(Validator(LowerTypeName(field_type), value, field_path))

(***************************************************************************)
(* Bounds and program constants                                            *)
(***************************************************************************)
\* Token usages offered by the provider are multiples 1..MaxTokenUnits of a
\* base usage.
MaxTokenUnits == 2

\* confidence_threshold default of extract_lease_data_with_refinement.
ConfidenceThreshold == 70
\* Minimum confidence gain for adopting the focused extraction.
MinGain == 10
\* Dollars per million input / output tokens.
InputRate == 3
OutputRate == 15

\* Field paths the orchestration model extracts (two currency fields of the
\* schema that are linked by a consistency rule).
Fields == {"rent.base_rent_monthly", "rent.base_rent_annual"}

\* The four top-level keys of a provider response.
required_keys == {"extractions", "reasoning", "citations", "confidence"}

\* All dicts over (some of) the field paths with values in V.
DictsOver(V) == UNION { [K -> V] : K \in SUBSET Fields }

\* Non-null value the provider reports for a field in pass p.  The values
\* are opaque to the orchestrator; pass 1 and pass 2 report different raw
\* texts so that the origin of a merged value is visible.
\*   pass 1: "$15,000"     pass 2: "15000.0"
PassValue(p) ==
    IF p = 1 THEN PyStr(<<"$", "1", "5", ",", "0", "0", "0">>)
    ELSE PyStr(<<"1", "5", "0", "0", "0", ".", "0">>)
ExtractionValues(p) == {PyNone, PassValue(p)}

\* Confidences (hundredths) the provider reports in pass p.  On these
\* values the float expressions of the code (c < 0.70, f - i >= 0.10)
\* and the integer expressions of the model agree; 10 -> 20 is a gain of
\* exactly 0.10 (0.2 - 0.1 evaluates to 0.1).
ConfidenceValues(p) == IF p = 1 THEN {10, 65, 76} ELSE {20, 74, 76}

\* response.usage of a provider call.
Usages == {[input_tokens |-> 1234 * k, output_tokens |-> 56 * k] : k \in 1..MaxTokenUnits}

(***************************************************************************)
(* State                                                                   *)
(***************************************************************************)
VARIABLES
    caller,                \* who invoked the service: "none", "script", "endpoint"
    use_multi_pass,        \* extract_lease_data_with_refinement (TRUE) or extract_lease_data
    svc_pc,                \* position inside the service call
    provider_calls,        \* log of client.messages.create calls: <<[pass, status]>>
    response1,             \* initial_result as extract_lease_data returned it
    response2,             \* focused_result as _extract_focused_fields returned it
    low_confidence_fields, \* candidate set computed from pass 1
    result,                \* the dict the service returned to its caller (NoResult
                           \* until it returns); the endpoint normalizes it in place
    steps,                 \* order of the steps taken for this invocation (history)
    handler_pc,            \* position inside the extract endpoint
    lease_status,          \* Lease.status of the lease being extracted
    lease_error,           \* Lease.error_message
    persisted,             \* the committed Extraction rows of the lease
    http_status,           \* status code of the endpoint's response (0: none yet)
    val_pc,                \* "idle", or "ready" / "done" around a direct call of
                           \* validate_and_normalize
    val_in,                \* arguments of that call
    val_out,               \* its ValidationResult
    val_again,             \* ValidationResult of validating val_out.value once more
    run_pc,                \* position of each run_baseline invocation
    run_lock,              \* holder of _run_lock (0: not held)
    current_run,           \* the module-level _current_run
    run_loop,              \* locals of the running invocation: loop index i and
                           \* n = len(test_entries)
    run_calls,             \* number of run_baseline calls made so far
    run_seen,              \* what get_run_state last returned
    cmp_pc,                \* "idle", or "ready" / "done" around a call of compare_values
    cmp_in,                \* arguments of that call
    cmp_out,               \* the (match, detail) it returned
    score_pc,              \* "idle", or "scoring" / "summing" / "done" along the
                           \* scoring of a run
    score_in,              \* per lease of the run: its ground truth and what the
                           \* service call gave (a result, or an exception)
    all_results,           \* the list all_results of run_baseline
    run_summary,           \* the dict run_summary (NoSummary until it is built)
    concurrent_status      \* status code of the response to another request for the
                           \* same lease, made while the first is under way (0: none)

svc_vars == <<caller, use_multi_pass, svc_pc, provider_calls, response1, response2,
              low_confidence_fields, result, steps>>
handler_vars == <<handler_pc, lease_status, lease_error, persisted, http_status>>
val_vars == <<val_pc, val_in, val_out, val_again>>
run_vars == <<run_pc, run_lock, current_run, run_loop, run_calls, run_seen>>
cmp_vars == <<cmp_pc, cmp_in, cmp_out>>
score_vars == <<score_pc, score_in, all_results, run_summary>>
bench_vars == <<run_vars, cmp_vars, score_vars>>
gate_vars == <<concurrent_status>>
\* Everything but the benchmark run state.
outside_run == <<svc_vars, handler_vars, val_vars, cmp_vars, score_vars, gate_vars>>
vars == <<svc_vars, handler_vars, val_vars, bench_vars, gate_vars>>

\* "No dict yet": the empty dict stands for a result that does not exist.
NoResult == EmptyDict

(***************************************************************************)
(* ClaudeService helpers                                                   *)
(***************************************************************************)
\* round(x, 4) of a cost given in micro-dollars: nearest multiple of 100
\* micro-dollars, ties to the even multiple.
Round4(micro) ==
    LET q == micro \div 100
        r == micro % 100
    IN  IF r < 50 THEN 100 * q
        ELSE IF r > 50 THEN 100 * (q + 1)
        ELSE IF q % 2 = 0 THEN 100 * q ELSE 100 * (q + 1)

\* ClaudeService._calculate_cost, in micro-dollars:
\* (input_tokens / 1e6) * 3.0 + (output_tokens / 1e6) * 15.0, rounded to 4 places.
CalculateCost(input_tokens, output_tokens) ==
    Round4(input_tokens * InputRate + output_tokens * OutputRate)

\* Variant of the parse that starts from four empty dicts when a key is missing.
ParseResponseResets(data) ==
    [key \in required_keys |->
        IF DOMAIN data = required_keys THEN data[key] ELSE EmptyDict]

\* ClaudeService._parse_response on a reply that holds a JSON object: every
\* missing top-level key is set to an empty dict, present keys are kept.
ParseResponse(data) ==
    [key \in required_keys |-> IF Has(data, key) THEN data[key] ELSE EmptyDict]

\* The JSON objects the provider may send in pass p: complete, without the
\* confidence key, or with the confidence key only; reasoning and citations,
\* when present, cover the extracted fields.
ProviderReplies(p) ==
    { [key \in keys |->
         CASE key = "extractions" -> ext
           [] key = "confidence" -> conf
           [] key = "reasoning" -> [f \in DOMAIN ext |-> [t |-> "reasoning", pass |-> p, field |-> f]]
           [] key = "citations" -> [f \in DOMAIN ext |-> [t |-> "citation", pass |-> p, field |-> f]]] :
        ext \in DictsOver(ExtractionValues(p)),
        conf \in DictsOver(ConfidenceValues(p)),
        keys \in {required_keys, {"extractions", "reasoning", "citations"},
                  {"confidence"}} }

\* The dict returned by extract_lease_data (pass 1) for a parsed reply.
InitialResult(data, usage) ==
    [extractions |-> data["extractions"], reasoning |-> data["reasoning"],
     citations |-> data["citations"], confidence |-> data["confidence"],
     metadata |-> [prompt_version |-> "1.1",
                   input_tokens |-> usage.input_tokens,
                   output_tokens |-> usage.output_tokens,
                   total_cost |-> CalculateCost(usage.input_tokens, usage.output_tokens)]]

\* The dict returned by _extract_focused_fields (pass 2) for a parsed reply.
FocusedResult(data, usage, field_paths) ==
    [extractions |-> data["extractions"], reasoning |-> data["reasoning"],
     citations |-> data["citations"], confidence |-> data["confidence"],
     metadata |-> [prompt_version |-> "1.1_focused",
                   input_tokens |-> usage.input_tokens,
                   output_tokens |-> usage.output_tokens,
                   total_cost |-> CalculateCost(usage.input_tokens, usage.output_tokens),
                   fields_refined |-> field_paths]]

\* Variant of the selection that leaves out the test on the extracted value.
LowConfidenceFieldsWithNulls(initial, confidence_threshold) ==
    { field_path \in DOMAIN initial.confidence :
        initial.confidence[field_path] < confidence_threshold }

\* Candidate selection of extract_lease_data_with_refinement: the keys of the
\* confidence dict whose confidence is below the threshold and whose
\* extraction is not None.
LowConfidenceFields(initial, confidence_threshold) ==
    { field_path \in DOMAIN initial.confidence :
        /\ initial.confidence[field_path] < confidence_threshold
        /\ Get(initial.extractions, field_path) # PyNone }

\* confidence_gain of _merge_extraction_results for one refined field.
ConfidenceGain(initial, focused, field_path) ==
    GetOr(focused.confidence, field_path, 0) - GetOr(initial.confidence, field_path, 0)

\* Variant of the test that asks for a gain above the minimum.
UseFocusedStrict(initial, focused, field_path) ==
    ConfidenceGain(initial, focused, field_path) > MinGain

\* The test that decides whether a refined field is taken from the focused
\* result.
UseFocused(initial, focused, field_path) ==
    ConfidenceGain(initial, focused, field_path) >= MinGain

\* The four nested dicts after the loop of _merge_extraction_results: the
\* entry of an updated field is replaced (or created), every other entry is
\* left as it is.
MergedMap(initial_map, updated_fields, new_values) ==
    [f \in DOMAIN initial_map \cup updated_fields |->
        IF f \in updated_fields THEN new_values[f] ELSE initial_map[f]]

\* Variant of the cost update that leaves the pass-1 cost as it is.
MergedTotalCostInitialOnly(initial, focused) == initial.metadata.total_cost

\* merged['metadata']['total_cost'] += focused['metadata']['total_cost']
MergedTotalCost(initial, focused) ==
    initial.metadata.total_cost + focused.metadata.total_cost

\* ClaudeService._merge_extraction_results.  merged = initial.copy() is a
\* shallow copy: the five nested dicts of merged are the very dicts of
\* initial, so the value computed here is also the new content of initial.
\* The loop treats each refined field on its own, reading and writing only
\* that field's entries, so it is written as a map over the fields.
MergeExtractionResults(initial, focused, refined_fields) ==
    LET updated_fields ==
            { f \in refined_fields : UseFocused(initial, focused, f) }
        improvements ==
            [f \in updated_fields |->
                [initial_confidence |-> GetOr(initial.confidence, f, 0),
                 focused_confidence |-> GetOr(focused.confidence, f, 0),
                 improvement |-> ConfidenceGain(initial, focused, f)]]
        NewExtraction == [f \in refined_fields |-> Get(focused.extractions, f)]
        NewReasoning == [f \in refined_fields |-> Get(focused.reasoning, f)]
        NewCitation == [f \in refined_fields |-> Get(focused.citations, f)]
        NewConfidence == [f \in refined_fields |-> GetOr(focused.confidence, f, 0)]
        summed_cost == MergedTotalCost(initial, focused)
        \* initial['metadata'] is the same dict as merged['metadata'], so
        \* initial['metadata']['total_cost'] is read after the += above.
        initial_cost == summed_cost
    IN  [extractions |-> MergedMap(initial.extractions, updated_fields, NewExtraction),
         reasoning   |-> MergedMap(initial.reasoning, updated_fields, NewReasoning),
         citations   |-> MergedMap(initial.citations, updated_fields, NewCitation),
         confidence  |-> MergedMap(initial.confidence, updated_fields, NewConfidence),
         metadata    |-> [updated_from_refinement |-> updated_fields,
                          refinement_improvements |-> improvements,
                          initial_cost |-> initial_cost,
                          refinement_cost |-> focused.metadata.total_cost]
                         @@ [initial.metadata EXCEPT !.total_cost = summed_cost]]

\* Variant of the early return that tags the result as a two-pass one.
TagSinglePassAsMulti(initial) ==
    [initial EXCEPT !.metadata = [multi_pass |-> TRUE, refined_fields |-> {}] @@ @]

\* The tags of the early return: initial_result['metadata']['multi_pass'] =
\* False and ['refined_fields'] = [].
TagSinglePass(initial) ==
    [initial EXCEPT !.metadata = [multi_pass |-> FALSE, refined_fields |-> {}] @@ @]

\* Variant of the tags that lists the swapped fields only.
TagMultiPassSwappedOnly(merged, candidates) ==
    [merged EXCEPT !.metadata =
        [multi_pass |-> TRUE,
         refined_fields |-> merged.metadata.updated_from_refinement] @@ @]

\* The tags after the merge: merged_result['metadata']['multi_pass'] = True
\* and ['refined_fields'] = low_confidence_fields.
TagMultiPass(merged, candidates) ==
    [merged EXCEPT !.metadata = [multi_pass |-> TRUE, refined_fields |-> candidates] @@ @]

(***************************************************************************)
(* The extract endpoint (api/extractions.py)                               *)
(***************************************************************************)
RECURSIVE ValidationLoop(_, _, _, _)
\* The loop "for field_path, value in list(extractions_dict.items())" of
\* the endpoint over the fields in dict order `order`.  Each value that is
\* not None and whose path is in the schema is validated against the dict as
\* it stands at that moment (earlier fields already normalized), replaced by
\* the normalized value, and its confidence is moved by the adjustment
\* (missing confidence: 0.5) and kept within [0, 1].
ValidationLoop(order, extractions_dict, confidence_dict, validation_warnings) ==
    LET Unchanged == [extractions |-> extractions_dict, confidence |-> confidence_dict,
                      validation_warnings |-> validation_warnings]
        Validated(field_path, validation_result) ==
            [extractions |-> Put(extractions_dict, field_path, validation_result.value),
             confidence |->
                 IF validation_result.confidence_adjustment # 0
                 THEN Put(confidence_dict, field_path,
                          Max(0, Min(100, GetOr(confidence_dict, field_path, 50)
                                          + validation_result.confidence_adjustment)))
                 ELSE confidence_dict,
             validation_warnings |->
                 IF validation_result.warnings # << >>
                 THEN Put(validation_warnings, field_path, validation_result.warnings)
                 ELSE validation_warnings]
        Field(field_path, value) ==
            IF value # PyNone /\ field_path \in SchemaPaths
            THEN Validated(field_path,
                   validate_and_normalize(field_path, value, SchemaType(field_path),
                                          extractions_dict))
            ELSE Unchanged
        Rest(after) ==
            ValidationLoop(Tail(order), after.extractions, after.confidence,
                           after.validation_warnings)
    IN  IF order = << >> THEN Unchanged
        ELSE Rest(Field(Head(order), extractions_dict[Head(order)]))

\* The orders in which a dict with key set K can list its keys.
KeyOrders(K) ==
    { order \in [1..Cardinality(K) -> K] : \A k \in K : \E i \in DOMAIN order : order[i] = k }

\* Extraction(...) as built by the endpoint from the validated result.
ExtractionRow(res) ==
    [extractions |-> res.extractions, reasoning |-> res.reasoning,
     citations |-> res.citations, confidence |-> res.confidence,
     prompt_version |-> res.metadata.prompt_version,
     input_tokens |-> res.metadata.input_tokens,
     output_tokens |-> res.metadata.output_tokens,
     total_cost |-> res.metadata.total_cost,
     extraction_metadata |-> res.metadata]

(***************************************************************************)
(* Initial state                                                           *)
(***************************************************************************)
NoCall == [field_path |-> "", value |-> PyNone, field_type |-> "", all_extractions |-> NoExtractions]
NoOutcome == [value |-> PyNone, warnings |-> << >>, confidence_adjustment |-> 0]

ServiceIdle ==
    /\ caller = "none"
    /\ use_multi_pass = TRUE
    /\ svc_pc = "idle"
    /\ provider_calls = << >>
    /\ response1 = NoResult
    /\ response2 = NoResult
    /\ low_confidence_fields = {}
    /\ result = NoResult
    /\ steps = << >>
    /\ handler_pc = "idle"
    /\ lease_status = "uploaded"
    /\ lease_error = "none"
    /\ persisted = << >>
    /\ http_status = 0
    /\ concurrent_status = 0

\* No direct call of the validator is under way.
ValIdle ==
    /\ val_pc = "idle"
    /\ val_in = NoCall
    /\ val_out = NoOutcome
    /\ val_again = NoOutcome

\* The threads that may call run_baseline.
Invocations == {1, 2}
\* _current_run = None
NoRunState ==
    [status |-> "none", run_id |-> 0, current_lease |-> 0, total_leases |-> 0,
     completed_results |-> << >>, error |-> "none"]
\* The module as imported: lock free, no run state, nobody inside
\* run_baseline.
RunIdle ==
    /\ run_pc = [t \in Invocations |-> "idle"]
    /\ run_lock = 0
    /\ current_run = NoRunState
    /\ run_loop = [i |-> 0, n |-> 0]
    /\ run_calls = 0
    /\ run_seen = "idle"

NoComparison == [gold |-> PyNone, extracted |-> PyNone, field_name |-> ""]
NoVerdict == [match |-> FALSE, detail |-> "none"]
\* No call of compare_values is under way.
CmpIdle ==
    /\ cmp_pc = "idle"
    /\ cmp_in = NoComparison
    /\ cmp_out = NoVerdict

\* run_summary before it is built.
NoSummary ==
    [leases_tested |-> 0, leases_errored |-> 0, average_accuracy |-> FZero,
     field_accuracy |-> [f \in {} |-> FZero]]
\* No run is being scored.
ScoreIdle ==
    /\ score_pc = "idle"
    /\ score_in = << >>
    /\ all_results = << >>
    /\ run_summary = NoSummary

Init ==
    /\ ServiceIdle
    /\ ValIdle
    /\ RunIdle
    /\ CmpIdle
    /\ ScoreIdle

(***************************************************************************)
(* Entry points                                                            *)
(***************************************************************************)
\* Variant that issues the focused call together with the first one.
IssueBothPasses ==
    /\ svc_pc' = "pass1_call"
    /\ provider_calls' = <<[pass |-> 1, status |-> "pending"],
                           [pass |-> 2, status |-> "pending"]>>
    /\ steps' = <<"pass1_call", "pass2_call">>

\* The first provider call of extract_lease_data (client.messages.create).
IssuePass1 ==
    /\ svc_pc' = "pass1_call"
    /\ provider_calls' = <<[pass |-> 1, status |-> "pending"]>>
    /\ steps' = <<"pass1_call">>

\* A script calls claude_service.extract_lease_data_with_refinement(pdf_bytes)
\* directly (review_extraction.py, test_extraction_demo.py).
ScriptInvoke ==
    /\ caller = "none"
    /\ caller' = "script"
    /\ use_multi_pass' = TRUE
    /\ IssuePass1
    /\ UNCHANGED <<response1, response2, low_confidence_fields, result>>
    /\ UNCHANGED <<handler_vars, val_vars, bench_vars, gate_vars>>

\* POST /extract/{lease_id}: the lease exists and is not PROCESSING; its
\* status is set to PROCESSING and committed before the try block.
EndpointAccept(multi_pass) ==
    /\ caller = "none"
    /\ lease_status # "processing"
    /\ caller' = "endpoint"
    /\ use_multi_pass' = multi_pass
    /\ lease_status' = "processing"
    /\ handler_pc' = "downloading"
    /\ UNCHANGED <<svc_pc, provider_calls, response1, response2,
                   low_confidence_fields, result, steps>>
    /\ UNCHANGED <<lease_error, persisted, http_status, val_vars, bench_vars, gate_vars>>

\* Variant of the except branch that records the message only.
HandlerFailsKeepsStatus(message) ==
    /\ lease_error' = message
    /\ http_status' = 500
    /\ handler_pc' = "responded"
    /\ UNCHANGED <<lease_status, persisted>>

\* The except branch of the endpoint: the lease becomes FAILED with the
\* error message and the response is 500.
HandlerFails(message) ==
    /\ lease_status' = "failed"
    /\ lease_error' = message
    /\ http_status' = 500
    /\ handler_pc' = "responded"
    /\ UNCHANGED persisted

\* storage_service.download_pdf raises.
EndpointDownloadFails ==
    /\ handler_pc = "downloading"
    /\ HandlerFails("Failed to download file")
    /\ UNCHANGED <<svc_vars, val_vars, bench_vars, gate_vars>>

\* The endpoint calls the service.  It passes prompt_template=..., a keyword
\* that the two methods of claude_service.py do not declare (lines 21-25 and
\* 98-103): as the two files stand the call raises TypeError and the handler
\* takes its except branch (first disjunct).  The integration tests expect
\* status 201 from this endpoint, and the remaining lines of the handler
\* apply only when the call goes through; the second disjunct follows the
\* call into the service.
EndpointCallService ==
    /\ handler_pc = "downloading"
    /\ \/ /\ HandlerFails("unexpected keyword argument")
          /\ UNCHANGED <<svc_vars, val_vars, bench_vars, gate_vars>>
       \/ /\ handler_pc' = "in_service"
          /\ IssuePass1
          /\ UNCHANGED <<caller, use_multi_pass, response1, response2,
                         low_confidence_fields, result>>
          /\ UNCHANGED <<lease_status, lease_error, persisted, http_status, val_vars, bench_vars, gate_vars>>

(***************************************************************************)
(* ClaudeService: the steps between provider calls                         *)
(***************************************************************************)
\* An exception leaves the service.  A script sees it raised; the endpoint
\* catches it in its except branch.
ServiceRaises(message) ==
    /\ svc_pc' = "raised"
    /\ IF caller = "endpoint"
       THEN HandlerFails(message)
       ELSE UNCHANGED handler_vars

MarkCall(i, status) == [provider_calls EXCEPT ![i].status = status]

\* Pass 1 fails: the provider call raises, or the reply holds no JSON object
\* (_parse_response raises).  extract_lease_data re-raises.
Pass1Fails ==
    /\ svc_pc = "pass1_call"
    /\ provider_calls' = MarkCall(1, "failed")
    /\ steps' = Append(steps, "pass1_failed")
    /\ ServiceRaises("Claude API error")
    /\ UNCHANGED <<caller, use_multi_pass, response1, response2,
                   low_confidence_fields, result, val_vars, bench_vars, gate_vars>>

\* Pass 1 returns.  extract_lease_data builds its result; the refinement
\* method then selects the candidates and either returns the pass-1 result
\* tagged multi_pass = False or issues the focused provider call.
Pass1Returns(data, usage) ==
    /\ svc_pc = "pass1_call"
    /\ LET initial == InitialResult(ParseResponse(data), usage)
           candidates == LowConfidenceFields(initial, ConfidenceThreshold)
       IN  /\ response1' = initial
           /\ IF ~use_multi_pass
              THEN /\ result' = initial
                   /\ low_confidence_fields' = {}
                   /\ svc_pc' = "returned"
                   /\ provider_calls' = MarkCall(1, "returned")
                   /\ steps' = Append(steps, "pass1_return")
              ELSE IF candidates = {}
              THEN /\ result' = TagSinglePass(initial)
                   /\ low_confidence_fields' = {}
                   /\ svc_pc' = "returned"
                   /\ provider_calls' = MarkCall(1, "returned")
                   /\ steps' = Append(steps, "pass1_return")
              ELSE /\ UNCHANGED result
                   /\ low_confidence_fields' = candidates
                   /\ svc_pc' = "pass2_call"
                   /\ provider_calls' = Append(MarkCall(1, "returned"),
                                               [pass |-> 2, status |-> "pending"])
                   /\ steps' = steps \o <<"pass1_return", "pass2_call">>
    /\ UNCHANGED <<caller, use_multi_pass, response2, handler_vars, val_vars, bench_vars, gate_vars>>

\* Variant of a failing pass 2 that falls back to the pass-1 result.
Pass2FailsDegraded ==
    /\ svc_pc = "pass2_call"
    /\ provider_calls' = MarkCall(2, "failed")
    /\ steps' = Append(steps, "pass2_failed")
    /\ result' = response1
    /\ svc_pc' = "returned"
    /\ UNCHANGED <<caller, use_multi_pass, response1, response2,
                   low_confidence_fields, handler_vars, val_vars, bench_vars, gate_vars>>

\* Pass 2 fails: _extract_focused_fields re-raises and nothing catches it in
\* extract_lease_data_with_refinement.
Pass2Fails ==
    /\ svc_pc = "pass2_call"
    /\ provider_calls' = MarkCall(2, "failed")
    /\ steps' = Append(steps, "pass2_failed")
    /\ ServiceRaises("Focused extraction error")
    /\ UNCHANGED <<caller, use_multi_pass, response1, response2,
                   low_confidence_fields, result, val_vars, bench_vars, gate_vars>>

\* Variant of the return of pass 2 that merges every field of the focused
\* reply, not the candidates only.
Pass2ReturnsMergesAll(data, usage) ==
    /\ svc_pc = "pass2_call"
    /\ LET focused == FocusedResult(ParseResponse(data), usage, low_confidence_fields)
       IN  /\ response2' = focused
           /\ result' = TagMultiPass(
                            MergeExtractionResults(response1, focused,
                                                   DOMAIN focused.confidence),
                            low_confidence_fields)
    /\ svc_pc' = "returned"
    /\ provider_calls' = MarkCall(2, "returned")
    /\ steps' = steps \o <<"pass2_return", "merge">>
    /\ UNCHANGED <<caller, use_multi_pass, response1, low_confidence_fields,
                   handler_vars, val_vars, bench_vars, gate_vars>>

\* Pass 2 returns: the results are merged and tagged, and the merged result
\* is returned.  Nothing changes initial_result between its return and the
\* merge, so the merge reads it from response1.
Pass2Returns(data, usage) ==
    /\ svc_pc = "pass2_call"
    /\ LET focused == FocusedResult(ParseResponse(data), usage, low_confidence_fields)
       IN  /\ response2' = focused
           /\ result' = TagMultiPass(
                            MergeExtractionResults(response1, focused, low_confidence_fields),
                            low_confidence_fields)
    /\ svc_pc' = "returned"
    /\ provider_calls' = MarkCall(2, "returned")
    /\ steps' = steps \o <<"pass2_return", "merge">>
    /\ UNCHANGED <<caller, use_multi_pass, response1, low_confidence_fields,
                   handler_vars, val_vars, bench_vars, gate_vars>>

(***************************************************************************)
(* The endpoint after the service call                                     *)
(***************************************************************************)
\* Variant of the validation step in which validation rejects the request.
EndpointValidateRejecting ==
    /\ caller = "endpoint"
    /\ handler_pc = "in_service"
    /\ svc_pc = "returned"
    /\ HandlerFails("validation failed")
    /\ UNCHANGED <<svc_vars, val_vars, bench_vars, gate_vars>>

\* Lines 151-202: the values of the returned result are validated and
\* normalized in place, in the key order of the extractions dict.
EndpointValidate ==
    /\ caller = "endpoint"
    /\ handler_pc = "in_service"
    /\ svc_pc = "returned"
    /\ LET Validated(loop) ==
               [result EXCEPT
                  !.extractions = loop.extractions,
                  !.confidence = loop.confidence,
                  !.metadata = [validation_warnings |-> loop.validation_warnings] @@ @]
       IN  \E order \in KeyOrders(DOMAIN result.extractions) :
              result' = Validated(ValidationLoop(order, result.extractions,
                                                 result.confidence, EmptyDict))
    /\ steps' = Append(steps, "validate")
    /\ handler_pc' = "saving"
    /\ UNCHANGED <<caller, use_multi_pass, svc_pc, provider_calls, response1, response2,
                   low_confidence_fields>>
    /\ UNCHANGED <<lease_status, lease_error, persisted, http_status, val_vars, bench_vars, gate_vars>>

\* Variant of the save that does not wait for the validation loop.
EndpointPersistUnvalidated ==
    /\ caller = "endpoint"
    /\ handler_pc = "in_service"
    /\ svc_pc = "returned"
    /\ persisted' = Append(persisted, ExtractionRow(result))
    /\ lease_status' = "completed"
    /\ http_status' = 201
    /\ handler_pc' = "responded"
    /\ steps' = Append(steps, "persist")
    /\ UNCHANGED <<caller, use_multi_pass, svc_pc, provider_calls, response1, response2,
                   low_confidence_fields, result, lease_error, val_vars, bench_vars, gate_vars>>

\* Lines 204-253: the Extraction row is added, the lease becomes COMPLETED,
\* and the transaction is committed; a failing commit leads to the except
\* branch.
EndpointPersist ==
    /\ handler_pc = "saving"
    /\ \/ /\ persisted' = Append(persisted, ExtractionRow(result))
          /\ lease_status' = "completed"
          /\ http_status' = 201
          /\ handler_pc' = "responded"
          /\ steps' = Append(steps, "persist")
          /\ UNCHANGED lease_error
       \/ /\ HandlerFails("commit failed")
          /\ UNCHANGED steps
    /\ UNCHANGED <<caller, use_multi_pass, svc_pc, provider_calls, response1, response2,
                   low_confidence_fields, result, val_vars, bench_vars, gate_vars>>

Next ==
    \/ ScriptInvoke
    \/ \E multi_pass \in BOOLEAN : EndpointAccept(multi_pass)
    \/ EndpointDownloadFails
    \/ EndpointCallService
    \/ Pass1Fails
    \/ \E data \in ProviderReplies(1), usage \in Usages : Pass1Returns(data, usage)
    \/ Pass2Fails
    \/ \E data \in ProviderReplies(2), usage \in Usages : Pass2Returns(data, usage)
    \/ EndpointValidate
    \/ EndpointPersist

Spec == Init /\ [][Next]_vars

(***************************************************************************)
(* Direct calls of validate_and_normalize                                  *)
(***************************************************************************)
\* Raw values handed to the validator: what a JSON reply can hold for a
\* field (null, strings, numbers, booleans).
ValValues ==
    { PyNone,
      PyStr(<<"$", "2", "0", "0", ",", "0", "0", "0">>),
      PyStr(<<"1", "8", "0", "0", "0", "0">>),
      PyStr(<<"5", "0", "0", "0">>),
      PyStr(<<"5", ",", "0", "0", "0", " ", "S", "F">>),
      PyStr(<<"2", "0", "2", "4", "-", "1", "3", "-", "4", "5">>),
      PyStr(<<"2", "0", "2", "5", "-", "0", "1", "-", "0", "1">>),
      PyStr(<<"0", "1", "/", "1", "5", "/", "2", "0", "2", "7">>),
      PyStr(<<"1", "5", "/", "0", "1", "/", "2", "0", "2", "7">>),
      PyStr(<<"J", "a", "n", ".", " ", "1", "5", ",", " ", "2", "0", "2", "7">>),
      PyStr(<<"T", "B", "D">>),
      PyStr(<<"6", "0">>),
      PyStr(<<"1", "5", "0", "%">>),
      PyStr(<<"1", "8", "9", "0", "0", "0">>),
      PyStr(<<"1", "8", "9", "0", "0", "1">>),
      PyStr(<<"-", "5">>),
      PyStr(<<"y", "e", "s">>),
      PyInt(60), PyInt(0), PyFloat(1800000, 1), PyFloat(5, 1),
      PyBool(TRUE), PyBool(FALSE) }

\* Field paths of the calls: the five paths that have a consistency rule,
\* and three that have none.
ValPaths ==
    { "dates.expiration_date", "dates.lease_term_months", "rent.base_rent_annual",
      "rent.rent_per_sf_annual", "property.usable_area",
      "rent.base_rent_monthly", "parties.tenant_name",
      "operating_expenses.tenant_share_percentage" }

\* Type names of the calls: the schema type of the path, or the name of
\* another validator (one in upper case), or a name that is no key of the
\* validators dict.
ValTypes(field_path) == {SchemaType(field_path), "DATE", "boolean", "list"}

\* all_extractions of the calls: None, or the other fields of a lease
\* (normalized, raw, or normalized to zero).
ValSiblings ==
    { NoExtractions,
      [f \in {"rent.base_rent_monthly", "property.rentable_area",
               "dates.commencement_date", "dates.expiration_date",
               "rent.base_rent_annual"} |->
         CASE f = "rent.base_rent_monthly" -> PyFloat(15000, 0)
           [] f = "property.rentable_area" -> PyFloat(4000, 0)
           [] f = "dates.commencement_date" ->
                  PyStr(<<"2", "0", "2", "6", "-", "0", "1", "-", "0", "1">>)
           [] f = "dates.expiration_date" ->
                  PyStr(<<"2", "0", "3", "1", "-", "0", "1", "-", "0", "1">>)
           [] f = "rent.base_rent_annual" -> PyFloat(180000, 0)],
      [f \in {"rent.base_rent_monthly", "property.rentable_area"} |->
         IF f = "rent.base_rent_monthly"
         THEN PyStr(<<"$", "1", "5", ",", "0", "0", "0">>)
         ELSE PyStr(<<"4", "0", "0", "0">>)],
      [f \in {"rent.base_rent_monthly", "property.rentable_area"} |-> PyFloat(0, 0)] }

ValInit ==
    /\ ServiceIdle
    /\ val_pc = "ready"
    /\ \E field_path \in ValPaths, value \in ValValues, all_extractions \in ValSiblings :
         \E field_type \in ValTypes(field_path) :
            val_in = [field_path |-> field_path, value |-> value,
                      field_type |-> field_type, all_extractions |-> all_extractions]
    /\ val_out = NoOutcome
    /\ val_again = NoOutcome
    /\ RunIdle
    /\ CmpIdle
    /\ ScoreIdle

\* validation_service.validate_and_normalize(field_path, value, field_type,
\* all_extractions)
ValidateCall ==
    /\ val_pc = "ready"
    /\ val_out' = validate_and_normalize(val_in.field_path, val_in.value,
                                         val_in.field_type, val_in.all_extractions)
    /\ val_pc' = "done"
    /\ UNCHANGED <<val_in, val_again, svc_vars, handler_vars, bench_vars, gate_vars>>

\* The canonical value of the first call is validated again, with the same
\* field path, type name and siblings (a stored extraction that is passed
\* through the validator a second time).
ValidateAgain ==
    /\ val_pc = "done"
    /\ val_again' = validate_and_normalize(val_in.field_path, val_out.value,
                                           val_in.field_type, val_in.all_extractions)
    /\ val_pc' = "again"
    /\ UNCHANGED <<val_in, val_out, svc_vars, handler_vars, bench_vars, gate_vars>>

ValNext == ValidateCall \/ ValidateAgain

ValSpec == ValInit /\ [][ValNext]_vars

(***************************************************************************)
(* baseline_service: the comparator (normalize_*, compare_values)          *)
(*                                                                         *)
(* A normalized number is [ok, f]: None when ok is false, else the float   *)
(* f.  A verdict is (match, detail); detail is kept up to the first ':' or *)
(* '(' of the text, the part that names the rule.                          *)
(***************************************************************************)
NullTokens ==
    { <<"n", "/", "a">>, <<"n", "u", "l", "l">>, << >>,
      <<"n", "o", "t", " ", "s", "p", "e", "c", "i", "f", "i", "e", "d">>,
      <<"n", "o", "t", " ", "a", "p", "p", "l", "i", "c", "a", "b", "l", "e">>,
      <<"#", "d", "i", "v", "/", "0", "!">>, <<"#", "n", "/", "a">>,
      <<"#", "r", "e", "f", "!">>, <<"#", "v", "a", "l", "u", "e", "!">>,
      <<"t", "b", "d">> }

\* normalize_value: None, or str(val) stripped; the null spellings are None.
normalize_value(val) ==
    IF val.t = "none" THEN PyNone
    ELSE IF Lower(Strip(StrOf(val))) \in NullTokens THEN PyNone
    ELSE PyStr(Strip(StrOf(val)))

NoNumber == [ok |-> FALSE, f |-> FZero]
Number(f) == [ok |-> TRUE, f |-> f]

\* normalize_number: round(float(val), 2) of a number, or of the text
\* without ',', '$' and white space; None when float() raises ValueError.
normalize_number(val) ==
    IF val.t = "none" THEN NoNumber
    ELSE CHOOSE n \in { IF p.ok THEN Number(FRound2(FOfDec(p))) ELSE NoNumber :
                        p \in {FloatOf(IF val.t \in {"int", "float", "bool"} THEN val
                                       ELSE PyStr(Without(Strip(StrOf(val)),
                                                          {",", "$", " "})))} } : TRUE

\* Index after the longest match of \d+(?:\.\d+)? at s[i..], 0 when there is
\* none.
NumEnd(s, i) ==
    LET DigitsEnd(k) ==
            IF \E j \in k..Len(s) : ~IsDigit(s[j])
            THEN CHOOSE j \in k..Len(s) : ~IsDigit(s[j]) /\ \A h \in k..(j - 1) : IsDigit(s[h])
            ELSE Len(s) + 1
        WithFraction(p) ==
            IF p <= Len(s) /\ s[p] = "." /\ DigitsEnd(p + 1) > p + 1
            THEN DigitsEnd(p + 1) ELSE p
    IN  IF i > Len(s) \/ ~IsDigit(s[i]) THEN 0 ELSE WithFraction(DigitsEnd(i))

\* Index after \s* at s[i..]
SkipSpaces(s, i) == i + SpacesAt(s, i)

\* Index after the longest of the words matching at s[i..], 0 when none does.
WordEnd(s, i, words) ==
    LET hits == { Len(w) : w \in { v \in words : MatchAt(s, i, v) } }
    IN  IF hits = {} THEN 0 ELSE i + (CHOOSE n \in hits : \A k \in hits : k <= n)

\* The three term patterns of normalize_term_months on the lower-cased
\* text: [form, years, months], form one of "years_months", "years",
\* "months", "none"; years and months are the digit groups.
TermPattern(s) ==
    LET \* years?|yrs?  and  months?|mos?
        YearWords == { <<"y", "e", "a", "r", "s">>, <<"y", "e", "a", "r">>,
                       <<"y", "r", "s">>, <<"y", "r">> }
        MonthWords == { <<"m", "o", "n", "t", "h", "s">>, <<"m", "o", "n", "t", "h">>,
                        <<"m", "o", "s">>, <<"m", "o">> }
        AtEnd(p) == p # 0 /\ SkipSpaces(s, p) = Len(s) + 1
        \* after \s*(?:word) behind position p
        After(p, words) == IF p = 0 THEN 0 ELSE WordEnd(s, SkipSpaces(s, p), words)
        \* after \s*(?:and|,)?\s* behind the years word at y
        SepEnd(ys) ==
            IF MatchAt(s, ys, <<"a", "n", "d">>) THEN SkipSpaces(s, ys + 3)
            ELSE IF MatchAt(s, ys, <<",">>) THEN SkipSpaces(s, ys + 1)
            ELSE ys
        Sep(y) == IF y = 0 THEN 0 ELSE SepEnd(SkipSpaces(s, y))
        Num(p) == IF p = 0 THEN 0 ELSE NumEnd(s, p)
        \* n1, n2: ends of the two numbers; y, m2, m1: ends of the words of
        \* the three patterns; sep: start of the second number
        Pick(n1, y, sep, n2, m2, m1) ==
            IF AtEnd(m2)
            THEN [form |-> "years_months", years |-> Slice(s, 1, n1 - 1),
                  months |-> Slice(s, sep, n2 - 1)]
            ELSE IF AtEnd(y)
            THEN [form |-> "years", years |-> Slice(s, 1, n1 - 1), months |-> << >>]
            ELSE IF AtEnd(m1)
            THEN [form |-> "months", years |-> << >>, months |-> Slice(s, 1, n1 - 1)]
            ELSE [form |-> "none", years |-> << >>, months |-> << >>]
        WithSecond(n1, y, sep, n2) ==
            Pick(n1, y, sep, n2, After(n2, MonthWords), After(n1, MonthWords))
        WithSep(n1, y, sep) == WithSecond(n1, y, sep, Num(sep))
        WithYears(n1, y) == WithSep(n1, y, Sep(y))
        WithFirst(n1) == WithYears(n1, After(n1, YearWords))
    IN  WithFirst(NumEnd(s, 1))

\* float(years) * 12 + float(months), float(years) * 12, float(months)
TermMonths(form, y12, m) ==
    CASE form = "years_months" -> FAdd(y12, m)
      [] form = "years" -> y12
      [] form = "months" -> m

\* normalize_term_months of the text s that matches the pattern p
TermOfText(s, p) ==
    IF p.form = "none" THEN normalize_number(PyStr(s))
    ELSE Number(FRound2(TermMonths(p.form,
                                   FMulInt(FOfDec(ParseNumeral(p.years)), 12),
                                   FOfDec(ParseNumeral(p.months)))))

\* normalize_term_months
normalize_term_months(val) ==
    IF val.t = "none" THEN NoNumber
    ELSE IF val.t \in {"int", "float", "bool"} THEN Number(FRound2(FOfDec(FloatOf(val))))
    ELSE CHOOSE n \in { TermOfText(s, TermPattern(s)) :
                        s \in {Lower(Strip(StrOf(val)))} } : TRUE

\* The two results of one normalizer, f[1] of gold and f[2] of extracted
BothSides(f) == <<f[1], f[2]>>

\* 0 < a < 1 and b > 1
FractionOf(a, b, one) == FCmp(a, FZero) > 0 /\ FCmp(a, one) < 0 /\ FCmp(b, one) > 0

\* The side normalize_pro_rata scales: 1 gold, 2 extracted, 0 neither
ScaledSide(gn, en, one) ==
    IF FractionOf(gn.f, en.f, one) THEN 1
    ELSE IF FractionOf(en.f, gn.f, one) THEN 2 ELSE 0

\* (gn, en) with r, round(n * 100, 2), in the place of the side scaled
WithScaled(gn, en, side, r) ==
    IF side = 1 THEN <<r, en>> ELSE IF side = 2 THEN <<gn, r>> ELSE <<gn, en>>

\* normalize_pro_rata: (gn, en), a share written as a fraction scaled to the
\* percentage the other side uses.
normalize_pro_rata(gold_val, ext_val) ==
    CHOOSE p \in {
        IF ~f[1].ok \/ ~f[2].ok THEN <<NoNumber, NoNumber>>
        ELSE CHOOSE q \in {
                 WithScaled(f[1], f[2], side,
                            Number(FRound2(FMulInt((IF side = 1 THEN f[1] ELSE f[2]).f, 100)))) :
                 side \in {ScaledSide(f[1], f[2], FOfDec([m |-> 1, e |-> 0]))} } : TRUE :
        f \in {BothSides([i \in 1..2 |-> normalize_number(<<gold_val, ext_val>>[i])])} } : TRUE

Verdict(match, detail) == [match |-> match, detail |-> detail]

\* The tolerance of the number branch: ratio <= 0.05
Tolerance == FOfDec([m |-> 5, e |-> 2])

\* The verdict on the normalized numbers gn and en
DecideNumbers(gn, en) ==
    IF ~gn.ok \/ ~en.ok THEN Verdict(FALSE, "number_parse_fail")
    ELSE IF gn.f.m = << >> THEN Verdict(en.f.m = << >>, "zero_compare")
    ELSE IF FCmp(FDiv(FAbs(FSub(en.f, gn.f)), FAbs(gn.f)), Tolerance) <= 0
    THEN Verdict(TRUE, "number_match")
    ELSE Verdict(FALSE, "number_mismatch")

\* compare_values, the branch of the number fields: g and e are the
\* normalized texts; both sides go through the normalizer of the field.
CompareNumbers(g, e, field_name) ==
    CHOOSE v \in { DecideNumbers(p[1], p[2]) : p \in {
        IF field_name = "pro_rata_share" THEN normalize_pro_rata(g, e)
        ELSE BothSides([i \in 1..2 |->
                 IF field_name = "term_months" THEN normalize_term_months(<<g, e>>[i])
                 ELSE normalize_number(<<g, e>>[i])]) } } : TRUE

\* The formats normalize_date tries, in order, and those it tries once the
\* ordinal suffixes are removed.
BenchDateFormats ==
    << <<"%m", "/", "%d", "/", "%Y">>, <<"%m", "/", "%d", "/", "%y">>,
       <<"%B", " ", "%d", ",", " ", "%Y">>, <<"%b", " ", "%d", ",", " ", "%Y">>,
       <<"%b", ".", " ", "%d", ",", " ", "%Y">>,
       <<"%Y", "-", "%m", "-", "%d", "T", "%H", ":", "%M", ":", "%S">>,
       <<"%Y", "-", "%m", "-", "%d", "T", "%H", ":", "%M", ":", "%S", ".", "%f">>,
       <<"%Y", "-", "%m", "-", "%d", " ", "%H", ":", "%M", ":", "%S">>,
       <<"%d", " ", "%B", " ", "%Y">>, <<"%d", " ", "%b", " ", "%Y">>,
       <<"%B", " ", "%d", " ", "%Y">>, <<"%b", " ", "%d", " ", "%Y">>,
       <<"%m", "-", "%d", "-", "%Y">>, <<"%m", "-", "%d", "-", "%y">>,
       <<"%Y", "/", "%m", "/", "%d">> >>
OrdinalDateFormats ==
    << <<"%B", " ", "%d", ",", " ", "%Y">>, <<"%b", " ", "%d", ",", " ", "%Y">>,
       <<"%d", " ", "%B", " ", "%Y">>, <<"%d", " ", "%b", " ", "%Y">> >>

RECURSIVE TryFormats(_, _, _)
\* The loop over the formats: [ok, date] of the first format that parses s.
TryFormats(s, formats, k) ==
    LET Tried(dt) == IF dt.ok THEN dt ELSE TryFormats(s, formats, k + 1)
    IN  IF k > Len(formats) THEN [ok |-> FALSE, year |-> 0, month |-> 0, day |-> 0]
        ELSE CHOOSE r \in { Tried(dt) : dt \in {Strptime(s, formats[k])} } : TRUE

RECURSIVE StripOrdinals(_, _)
\* re.sub(r'(\d+)(st|nd|rd|th)', r'\1', s) from position i on
StripOrdinals(s, i) ==
    IF i > Len(s) THEN << >>
    ELSE IF /\ i > 1 /\ IsDigit(s[i - 1])
            /\ \E suffix \in {<<"s", "t">>, <<"n", "d">>, <<"r", "d">>, <<"t", "h">>} :
                  MatchAt(s, i, suffix)
    THEN StripOrdinals(s, i + 2)
    ELSE <<s[i]>> \o StripOrdinals(s, i + 1)

\* normalize_date: None, the text itself when it looks like YYYY-MM-DD or
\* no format parses it, else the parsed date as YYYY-MM-DD.
normalize_date(val) ==
    LET Cleaned(s, cleaned) ==
            IF cleaned # s /\ TryFormats(cleaned, OrdinalDateFormats, 1).ok
            THEN PyStr(StrftimeISO(TryFormats(cleaned, OrdinalDateFormats, 1)))
            ELSE PyStr(s)
        Parsed(s, dt) ==
            IF dt.ok THEN PyStr(StrftimeISO(dt)) ELSE Cleaned(s, StripOrdinals(s, 1))
        OfText(s) ==
            IF s = << >> \/ Lower(s) \in { <<"n", "o", "n", "e">>, <<"n", "u", "l", "l">>,
                                          <<"n", "/", "a">>, <<"t", "b", "d">>,
                                          <<"n", "o", "t", " ", "s", "p", "e", "c", "i", "f", "i", "e", "d">> }
            THEN PyNone
            ELSE IF LooksISO(s) THEN PyStr(s)
            ELSE CHOOSE r \in { Parsed(s, dt) : dt \in {TryFormats(s, BenchDateFormats, 1)} } : TRUE
    IN  IF val.t = "none" THEN PyNone
        ELSE CHOOSE r \in { OfText(s) : s \in {Strip(StrOf(val))} } : TRUE

\* compare_values, the branch of the date fields
CompareDates(g, e) ==
    CHOOSE v \in { IF Truthy(p[1]) /\ Truthy(p[2]) /\ p[1] = p[2]
                   THEN Verdict(TRUE, "exact_date_match")
                   ELSE Verdict(FALSE, "date_mismatch") :
                   p \in {BothSides([i \in 1..2 |-> normalize_date(<<g, e>>[i])])} } : TRUE

\* s.strip('.')
StripDots(s) ==
    IF \A i \in 1..Len(s) : s[i] = "." THEN << >>
    ELSE SubSeq(s, CHOOSE i \in 1..Len(s) : s[i] # "." /\ \A k \in 1..(i - 1) : s[k] = ".",
                   CHOOSE i \in 1..Len(s) : s[i] # "." /\ \A k \in (i + 1)..Len(s) : s[k] = ".")

none_exact ==
    { <<"n", "o", "n", "e">>, <<"n", "o", "n", "e", ".">>, <<"n", "/", "a">>, <<"n", "o">>,
      <<"n", "o", "t", " ", "a", "p", "p", "l", "i", "c", "a", "b", "l", "e">>,
      <<"n", "o", "t", " ", "a", "p", "p", "l", "i", "c", "a", "b", "l", "e", ".">> }

\* re.match(r'^no\s+(option|renewal|expansion|termination|right|provision|exclusive)', s)
NoPhrase(s) ==
    /\ MatchAt(s, 1, <<"n", "o">>)
    /\ SpacesAt(s, 3) >= 1
    /\ \E w \in { <<"o", "p", "t", "i", "o", "n">>, <<"r", "e", "n", "e", "w", "a", "l">>,
                  <<"e", "x", "p", "a", "n", "s", "i", "o", "n">>,
                  <<"t", "e", "r", "m", "i", "n", "a", "t", "i", "o", "n">>,
                  <<"r", "i", "g", "h", "t">>,
                  <<"p", "r", "o", "v", "i", "s", "i", "o", "n">>,
                  <<"e", "x", "c", "l", "u", "s", "i", "v", "e">> } :
          MatchAt(s, 3 + SpacesAt(s, 3), w)

\* The lease-type clusters, in the order they are tried: the detail of the
\* first cluster both texts fall in, "none" when there is no such cluster.
LeaseTypeCluster(g_lower, e_lower) ==
    LET nnn_variants == { <<"n", "n", "n">>, <<"t", "r", "i", "p", "l", "e", " ", "n", "e", "t">>,
                          <<"n", "e", "t", " ", "n", "e", "t", " ", "n", "e", "t">> }
        nn_variants == { <<"n", "n">>, <<"d", "o", "u", "b", "l", "e", " ", "n", "e", "t">>,
                         <<"n", "e", "t", " ", "n", "e", "t">> }
        gross_variants == { <<"g", "r", "o", "s", "s">>,
                            <<"f", "u", "l", "l", " ", "s", "e", "r", "v", "i", "c", "e">> }
        modified_variants ==
            { <<"m", "o", "d", "i", "f", "i", "e", "d", " ", "g", "r", "o", "s", "s">>,
              <<"m", "o", "d", "i", "f", "i", "e", "d", " ", "n", "e", "t">> }
        \* any(v in s for v in variants)
        In(s, variants) == \E v \in variants : Contains(s, v)
    IN  IF In(g_lower, nnn_variants) /\ In(e_lower, nnn_variants)
        THEN "nnn_match"
        ELSE IF /\ In(g_lower, nn_variants) /\ ~In(g_lower, nnn_variants)
                /\ In(e_lower, nn_variants) /\ ~In(e_lower, nnn_variants)
        THEN "nn_match"
        ELSE IF In(g_lower, gross_variants) /\ In(e_lower, gross_variants)
        THEN "gross_match"
        ELSE IF In(g_lower, modified_variants) /\ In(e_lower, modified_variants)
        THEN "modified_match"
        ELSE "none"

\* addr_abbrevs, in the order of the dict
addr_abbrevs ==
    << << <<"p", "k", "w", "y">>, <<"p", "a", "r", "k", "w", "a", "y">> >>,
       << <<"b", "l", "v", "d">>, <<"b", "o", "u", "l", "e", "v", "a", "r", "d">> >>,
       << <<"s", "t">>, <<"s", "t", "r", "e", "e", "t">> >>,
       << <<"a", "v", "e">>, <<"a", "v", "e", "n", "u", "e">> >>,
       << <<"d", "r">>, <<"d", "r", "i", "v", "e">> >>,
       << <<"r", "d">>, <<"r", "o", "a", "d">> >>,
       << <<"l", "n">>, <<"l", "a", "n", "e">> >>,
       << <<"c", "t">>, <<"c", "o", "u", "r", "t">> >>,
       << <<"p", "l">>, <<"p", "l", "a", "c", "e">> >>,
       << <<"h", "w", "y">>, <<"h", "i", "g", "h", "w", "a", "y">> >>,
       << <<"s", "t", "e">>, <<"s", "u", "i", "t", "e">> >>,
       << <<"t", "x">>, <<"t", "e", "x", "a", "s">> >>,
       << <<"c", "a">>, <<"c", "a", "l", "i", "f", "o", "r", "n", "i", "a">> >>,
       << <<"f", "l">>, <<"f", "l", "o", "r", "i", "d", "a">> >>,
       << <<"n", "y">>, <<"n", "e", "w", " ", "y", "o", "r", "k">> >> >>

RECURSIVE ReplaceWord(_, _, _, _)
\* re.sub(r'\b' + abbr + r'\b', full, s) from position i on
ReplaceWord(s, abbr, full, i) ==
    IF i > Len(s) THEN << >>
    ELSE IF MatchAt(s, i, abbr) /\ Boundary(s, i) /\ Boundary(s, i + Len(abbr))
    THEN full \o ReplaceWord(s, abbr, full, i + Len(abbr))
    ELSE <<s[i]>> \o ReplaceWord(s, abbr, full, i + 1)

RECURSIVE ExpandAbbrevs(_, _)
\* The loop over addr_abbrevs from its k-th entry on
ExpandAbbrevs(s, k) ==
    IF k > Len(addr_abbrevs) THEN s
    ELSE CHOOSE r \in { ExpandAbbrevs(t, k + 1) :
                        t \in {ReplaceWord(s, addr_abbrevs[k][1], addr_abbrevs[k][2], 1)} } : TRUE

RECURSIVE CollapseSeparators(_, _)
\* re.sub(r'[,\s]+', ' ', s) from position i on
CollapseSeparators(s, i) ==
    IF i > Len(s) THEN << >>
    ELSE IF s[i] \in {",", " "}
    THEN (IF i > 1 /\ s[i - 1] \in {",", " "} THEN << >> ELSE <<" ">>)
         \o CollapseSeparators(s, i + 1)
    ELSE <<s[i]>> \o CollapseSeparators(s, i + 1)

\* The address form compared: abbreviations written out, separators collapsed.
NormalizedAddress(s_lower) == Strip(CollapseSeparators(ExpandAbbrevs(s_lower, 1), 1))

stop ==
    { <<"t", "h", "e">>, <<"a">>, <<"a", "n">>, <<"o", "f">>, <<"a", "n", "d">>, <<"i", "n">>,
      <<"f", "o", "r">>, <<"t", "o">>, <<"a", "t">>, <<"i", "s">>, <<"b", "e">>, <<"o", "r">>,
      <<"l", "l", "c">>, <<"i", "n", "c">>, <<"l", "t", "d">>, <<"c", "o">>,
      <<"s", "h", "a", "l", "l">>, <<"w", "i", "l", "l">>, <<"w", "i", "t", "h">>,
      <<"i", "t", "s">>, <<"s", "u", "c", "h">>, <<"a", "n", "y">> }

\* set(re.sub(r'[^a-z0-9\s]', '', s).split()) - stop
Words(s) ==
    LET Split(kept) ==
            { SubSeq(kept, p[1], p[2]) :
              p \in { q \in (1..Len(kept)) \X (1..Len(kept)) :
                        /\ q[1] <= q[2]
                        /\ \A k \in q[1]..q[2] : ~IsSpace(kept[k])
                        /\ (q[1] = 1 \/ IsSpace(kept[q[1] - 1]))
                        /\ (q[2] = Len(kept) \/ IsSpace(kept[q[2] + 1])) } }
    IN  CHOOSE words \in { Split(kept) \ stop : kept \in {
            SelectSeq(s, LAMBDA c : IsLower(c) \/ IsDigit(c) \/ IsSpace(c)) } } : TRUE

long_text_fields == {"permitted_use", "exclusives", "renewal_options", "termination", "expansion"}

\* compare_values, the branch of the text fields
CompareTexts(g, e, field_name) ==
    LET \* overlap >= threshold
        Overlaps(shared, total) ==
            FCmp(FDiv(FOfDec([m |-> shared, e |-> 0]), FOfDec([m |-> total, e |-> 0])),
                 FOfDec([m |-> IF field_name \in long_text_fields THEN 4 ELSE 6, e |-> 1])) >= 0
        ByWords(g_words, e_words) ==
            IF /\ g_words # {} /\ e_words # {}
               /\ Overlaps(Cardinality(g_words \cap e_words), Max(Cardinality(g_words), 1))
            THEN Verdict(TRUE, "word_overlap")
            ELSE Verdict(FALSE, "text_mismatch")
        Loose(g_lower, e_lower) ==
            IF Len(g_lower) > 5 /\ (Contains(e_lower, g_lower) \/ Contains(g_lower, e_lower))
            THEN Verdict(TRUE, "text_contains")
            ELSE ByWords(Words(g_lower), Words(e_lower))
        Address(g_addr, e_addr) ==
            IF g_addr = e_addr THEN Verdict(TRUE, "address_normalized_match")
            ELSE Loose(g_addr, e_addr)
        Text(g_lower, e_lower) ==
            IF /\ StripDots(g_lower) \in none_exact
               /\ (StripDots(e_lower) \in none_exact \/ NoPhrase(e_lower))
            THEN Verdict(TRUE, "both_none_semantic")
            ELSE IF g_lower = e_lower THEN Verdict(TRUE, "exact_text_match")
            ELSE IF field_name = "lease_type" /\ LeaseTypeCluster(g_lower, e_lower) # "none"
            THEN Verdict(TRUE, LeaseTypeCluster(g_lower, e_lower))
            ELSE IF field_name = "premise_address"
            THEN CHOOSE v \in { Address(g_addr, e_addr) :
                                g_addr \in {NormalizedAddress(g_lower)},
                                e_addr \in {NormalizedAddress(e_lower)} } : TRUE
            ELSE Loose(g_lower, e_lower)
    IN  CHOOSE v \in { Text(g_lower, e_lower) :
                       g_lower \in {Lower(g.s)}, e_lower \in {Lower(e.s)} } : TRUE

date_fields == {"lease_commencement", "lease_expiration", "rent_commencement", "execution_date"}
number_fields == {"tenant_sq_feet", "base_rent_monthly", "base_rent_annual", "rent_per_sf_annual",
                  "security_deposit", "ti_total", "term_months", "pro_rata_share"}
text_fields == {"tenant_legal_name", "premise_address", "lease_type", "permitted_use",
                "exclusives", "renewal_options", "termination", "expansion"}

\* compare_values when gold is present and extracted is null: a zero that
\* is left out is no error, for a numeric field.
ExtractedNullAlwaysMismatch(g, field_name) == Verdict(FALSE, "extracted_null")
ExtractedNull(g, field_name) ==
    IF /\ field_name \in number_fields
       /\ \E gn \in {normalize_number(g)} : gn.ok /\ gn.f.m = << >>
    THEN Verdict(TRUE, "zero_vs_null")
    ELSE Verdict(FALSE, "extracted_null")

\* compare_values(gold_val, extracted_val, field_name): (match, detail)
compare_values(gold_val, extracted_val, field_name) ==
    CHOOSE v \in {
        IF g.t = "none" /\ e.t = "none" THEN Verdict(TRUE, "both_null")
        ELSE IF g.t = "none" THEN Verdict(FALSE, "gold_null_extracted_present")
        ELSE IF e.t = "none" THEN ExtractedNull(g, field_name)
        ELSE IF field_name \in date_fields THEN CompareDates(g, e)
        ELSE IF field_name \in number_fields THEN CompareNumbers(g, e, field_name)
        ELSE IF field_name \in text_fields THEN CompareTexts(g, e, field_name)
        ELSE Verdict(FALSE, "unknown_field_type") :
        g \in {normalize_value(gold_val)}, e \in {normalize_value(extracted_val)} } : TRUE

(***************************************************************************)
(* baseline_service: run_baseline, get_run_state, clear_run_state          *)
(***************************************************************************)
\* Bounds of the benchmark model: leases of a run, calls of run_baseline.
MaxLeases == 2
MaxRunCalls == 3

\* The state the outer except branch of run_baseline leaves behind.
ErrorRunState(message) ==
    [status |-> "error", run_id |-> 0, current_lease |-> 0, total_leases |-> 0,
     completed_results |-> << >>, error |-> message]

\* Variant of the finally branch that keeps the lock.
RunLeavesHolding(t, how) ==
    /\ run_lock' = run_lock
    /\ run_pc' = [run_pc EXCEPT ![t] = how]

\* The finally branch: _run_lock.release(), the call is over.
RunLeaves(t, how) ==
    /\ run_lock' = 0
    /\ run_pc' = [run_pc EXCEPT ![t] = how]

\* An exception reaches the outer except branch of run_baseline: the run
\* state becomes the error state, the exception is raised again and the
\* lock is released.
RunRaises(t, message) ==
    /\ current_run' = ErrorRunState(message)
    /\ RunLeaves(t, "raised")

\* Variant of the lock acquisition that does not look at the lock.
RunAcquireBlind(t) ==
    /\ run_pc[t] = "idle"
    /\ run_calls < MaxRunCalls
    /\ run_calls' = run_calls + 1
    /\ run_lock' = t
    /\ run_pc' = [run_pc EXCEPT ![t] = "loading"]
    /\ UNCHANGED <<current_run, run_loop, run_seen>>
    /\ UNCHANGED outside_run

\* run_baseline is called by thread t: _run_lock.acquire(blocking=False).
\* Without the lock the call raises RuntimeError before the try block, so
\* neither the except nor the finally branch runs.
RunAcquire(t) ==
    /\ run_pc[t] = "idle"
    /\ run_calls < MaxRunCalls
    /\ run_calls' = run_calls + 1
    /\ IF run_lock = 0
       THEN /\ run_lock' = t
            /\ run_pc' = [run_pc EXCEPT ![t] = "loading"]
       ELSE /\ run_pc' = [run_pc EXCEPT ![t] = "refused"]
            /\ UNCHANGED run_lock
    /\ UNCHANGED <<current_run, run_loop, run_seen>>
    /\ UNCHANGED outside_run

\* Lines 341-372: prompt, examples and gold standard are loaded (any of
\* which can raise) and _current_run becomes the 'running' state of a run
\* over total_leases leases.
RunStart(t, total_leases) ==
    /\ run_pc[t] = "loading"
    /\ \/ /\ RunRaises(t, "load failed")
          /\ UNCHANGED run_loop
       \/ /\ current_run' = [status |-> "running", run_id |-> run_calls,
                             current_lease |-> 0, total_leases |-> total_leases,
                             completed_results |-> << >>, error |-> "none"]
          /\ run_loop' = [i |-> 0, n |-> total_leases]
          /\ run_pc' = [run_pc EXCEPT ![t] = "running"]
          /\ UNCHANGED run_lock
    /\ UNCHANGED <<run_calls, run_seen>>
    /\ UNCHANGED outside_run

\* Lines 379-403, the head of the loop body for lease i: the progress
\* fields of _current_run are written.  On _current_run = None the
\* subscript raises TypeError, outside the inner try.
RunLeaseBegin(t) ==
    /\ run_pc[t] = "running"
    /\ run_loop.i < run_loop.n
    /\ IF current_run = NoRunState
       THEN /\ RunRaises(t, "'NoneType' object is not subscriptable")
            /\ UNCHANGED run_loop
       ELSE /\ current_run' = [current_run EXCEPT !.current_lease = run_loop.i + 1]
            /\ run_pc' = [run_pc EXCEPT ![t] = "extracting"]
            /\ UNCHANGED <<run_lock, run_loop>>
    /\ UNCHANGED <<run_calls, run_seen>>
    /\ UNCHANGED outside_run

\* Lines 405-484, the rest of the loop body: the lease is extracted and
\* scored, or the extraction raises and the inner except branch records the
\* error; either way an entry is appended to completed_results.  (As the
\* files stand the service call is given prompt_template=, which the
\* service does not accept, so the recorded outcome is the error.)  On
\* _current_run = None the append raises TypeError in the try block and
\* again in the inner except branch, and reaches the outer except branch.
RunLeaseEnd(t, failed) ==
    /\ run_pc[t] = "extracting"
    /\ IF current_run = NoRunState
       THEN /\ RunRaises(t, "'NoneType' object is not subscriptable")
            /\ UNCHANGED run_loop
       ELSE /\ current_run' =
                  [current_run EXCEPT
                     !.completed_results =
                         Append(@, [tenant |-> run_loop.i + 1, failed |-> failed])]
            /\ run_loop' = [run_loop EXCEPT !.i = @ + 1]
            /\ run_pc' = [run_pc EXCEPT ![t] = "running"]
            /\ UNCHANGED run_lock
    /\ UNCHANGED <<run_calls, run_seen>>
    /\ UNCHANGED outside_run

\* Lines 486-596, after the loop: the summary is written to disk (which can
\* raise) and _current_run is replaced by the 'complete' state, which
\* reads completed_results from the old _current_run.
RunFinish(t) ==
    /\ run_pc[t] = "running"
    /\ run_loop.i = run_loop.n
    /\ \/ RunRaises(t, "save failed")
       \/ IF current_run = NoRunState
          THEN RunRaises(t, "'NoneType' object is not subscriptable")
          ELSE /\ current_run' = [current_run EXCEPT
                                    !.status = "complete",
                                    !.current_lease = run_loop.n]
               /\ RunLeaves(t, "returned")
    /\ UNCHANGED <<run_loop, run_calls, run_seen>>
    /\ UNCHANGED outside_run

\* The caller of run_baseline has its result or its exception.
RunReturn(t) ==
    /\ run_pc[t] \in {"returned", "raised", "refused"}
    /\ run_pc' = [run_pc EXCEPT ![t] = "idle"]
    /\ UNCHANGED <<run_lock, current_run, run_loop, run_calls, run_seen>>
    /\ UNCHANGED outside_run

\* get_run_state(): {'status': 'idle'} for None, else a copy of the state.
GetRunState ==
    /\ run_seen' = IF current_run = NoRunState THEN "idle" ELSE current_run.status
    /\ run_seen' # run_seen
    /\ UNCHANGED <<run_pc, run_lock, current_run, run_loop, run_calls>>
    /\ UNCHANGED outside_run

\* clear_run_state(): _current_run = None, whatever the state is.
ClearRunState ==
    /\ current_run # NoRunState
    /\ current_run' = NoRunState
    /\ UNCHANGED <<run_pc, run_lock, run_loop, run_calls, run_seen>>
    /\ UNCHANGED outside_run



RunNext ==
    \/ \E t \in Invocations : RunAcquire(t)
    \/ \E t \in Invocations, total_leases \in 0..MaxLeases : RunStart(t, total_leases)
    \/ \E t \in Invocations : RunLeaseBegin(t)
    \/ \E t \in Invocations, failed \in BOOLEAN : RunLeaseEnd(t, failed)
    \/ \E t \in Invocations : RunFinish(t)
    \/ \E t \in Invocations : RunReturn(t)
    \/ GetRunState
    \/ ClearRunState

RunSpec == Init /\ [][RunNext]_vars

(***************************************************************************)
(* Direct calls of compare_values                                          *)
(***************************************************************************)
\* Spellings of "no value": None and two of the null tokens.
CmpNulls == { PyNone, PyStr(<<"N", "/", "A">>), PyStr(<<" ">>) }

\* Numbers as a gold sheet and an extraction hold them: texts with and
\* without currency marks, ints and floats, zero in several spellings,
\* values 5% apart and just beyond, a third decimal, a text that is no number.
CmpNumbers ==
    { PyStr(<<"0">>), PyStr(<<"$", "0", ".", "0", "0">>), PyStr(<<"0", ".", "0", "0", "4">>),
      PyInt(0),
      PyStr(<<"1", "0", "0", "0", "0", "0">>), PyStr(<<"$", "1", "0", "5", ",", "0", "0", "0">>),
      PyInt(105001), PyInt(95000), PyStr(<<"9", "4", "9", "9", "9">>),
      PyStr(<<"2", ".", "0">>), PyFloat(21, 1), PyFloat(19, 1),
      PyStr(<<"1", ".", "1">>), PyStr(<<"1", ".", "1", "5", "5">>),
      PyStr(<<"-", "1", "0", "0">>), PyStr(<<"-", "1", "0", "5">>),
      PyStr(<<"t", "e", "n">>) }

\* Terms and shares: months, years and months, a share as a fraction and as
\* a percentage (15.75%, 12.5% and 3.49% in both notations).
CmpTerms ==
    { PyStr(<<"6", "0">>), PyStr(<<"5", " ", "y", "e", "a", "r", "s">>),
      PyStr(<<"5", " ", "y", "r", "s", ",", " ", "3", " ", "m", "o", "s">>),
      PyStr(<<"6", "3", " ", "M", "o", "n", "t", "h", "s">>), PyInt(63),
      PyFloat(15, 2), PyStr(<<"1", "5">>), PyStr(<<"1", "5", ".", "7", "5">>),
      PyStr(<<"0", ".", "1", "5", "7", "5">>), PyStr(<<"1", "5", "%">>),
      PyFloat(125, 3), PyFloat(125, 1),
      PyStr(<<"0", ".", "0", "3", "4", "9">>), PyStr(<<"3", ".", "4", "9">>) }

\* Dates in the spellings the formats cover, one that is no calendar day and
\* one that no format parses.
CmpDates ==
    { PyStr(<<"2", "0", "2", "4", "-", "0", "1", "-", "1", "5">>),
      PyStr(<<"0", "1", "/", "1", "5", "/", "2", "0", "2", "4">>),
      PyStr(<<"1", "/", "1", "5", "/", "2", "4">>),
      PyStr(<<"J", "a", "n", "u", "a", "r", "y", " ", "1", "5", "t", "h", ",", " ", "2", "0", "2", "4">>),
      PyStr(<<"J", "a", "n", ".", " ", "1", "5", ",", " ", "2", "0", "2", "4">>),
      PyStr(<<"2", "0", "2", "4", "-", "0", "1", "-", "1", "5", "T", "0", "0", ":", "0", "0", ":", "0", "0">>),
      PyStr(<<"1", "5", " ", "J", "a", "n", " ", "2", "0", "2", "4">>),
      PyStr(<<"2", "0", "2", "4", "-", "1", "3", "-", "4", "5">>),
      PyStr(<<"2", "0", "2", "4", "-", "1", "-", "1", "5">>),
      PyStr(<<"0", "2", "/", "3", "0", "/", "2", "0", "2", "4">>),
      PyStr(<<"s", "o", "o", "n">>) }

\* Lease types, an address in two spellings, and short free texts.
CmpTexts ==
    { PyStr(<<"N", "N", "N">>), PyStr(<<"T", "r", "i", "p", "l", "e", " ", "N", "e", "t">>),
      PyStr(<<"N", "N">>), PyStr(<<"D", "o", "u", "b", "l", "e", " ", "n", "e", "t">>),
      PyStr(<<"G", "r", "o", "s", "s">>), PyStr(<<"F", "u", "l", "l", " ", "S", "e", "r", "v", "i", "c", "e">>),
      PyStr(<<"M", "o", "d", "i", "f", "i", "e", "d", " ", "G", "r", "o", "s", "s">>),
      PyStr(<<"M", "o", "d", "i", "f", "i", "e", "d", " ", "N", "e", "t">>),
      PyStr(<<"n", "e", "t", " ", "n", "e", "t">>),
      PyStr(<<"N", "e", "t", " ", "N", "e", "t", " ", "N", "e", "t">>),
      PyStr(<<"1", " ", "M", "a", "i", "n", " ", "S", "t", ",", " ", "T", "X">>),
      PyStr(<<"1", " ", "m", "a", "i", "n", " ", "s", "t", "r", "e", "e", "t", " ", "t", "e", "x", "a", "s">>),
      PyStr(<<"N", "o", "n", "e", ".">>), PyStr(<<"N", "o", " ", "o", "p", "t", "i", "o", "n", "s">>),
      PyStr(<<"r", "e", "t", "a", "i", "l", " ", "u", "s", "e">>),
      PyStr(<<"o", "f", "f", "i", "c", "e", " ", "a", "n", "d", " ", "r", "e", "t", "a", "i", "l", " ", "u", "s", "e">>),
      PyStr(<<"t", "h", "e", " ", "L", "L", "C">>) }

\* A field name that is in none of the three classes (it is no key of
\* FIELD_MAP either), and the empty name.
UnknownNames == {"parking_spaces", ""}

\* The calls: values of a class with the field names of the class and with
\* the unknown names; every class has the null spellings.
CmpCalls ==
    [gold : CmpNumbers \cup CmpNulls, extracted : CmpNumbers \cup CmpNulls,
     field_name : {"security_deposit", "rent_per_sf_annual", "parking_spaces"}]
    \cup [gold : CmpTerms \cup CmpNulls, extracted : CmpTerms \cup CmpNulls,
          field_name : {"term_months", "pro_rata_share"}]
    \cup [gold : CmpDates \cup CmpNulls, extracted : CmpDates \cup CmpNulls,
          field_name : {"lease_commencement"}]
    \cup [gold : CmpTexts \cup CmpNulls, extracted : CmpTexts \cup CmpNulls,
          field_name : {"lease_type", "premise_address", "permitted_use", "tenant_legal_name"}]
    \cup [gold : CmpNulls \cup {PyStr(<<"0">>), PyStr(<<"N", "N", "N">>)},
          extracted : CmpNulls \cup {PyStr(<<"0">>), PyStr(<<"N", "N", "N">>)},
          field_name : UnknownNames \cup {"term_months", "execution_date", "expansion"}]

CmpInit ==
    /\ ServiceIdle
    /\ ValIdle
    /\ RunIdle
    /\ ScoreIdle
    /\ cmp_pc = "ready"
    /\ cmp_in \in CmpCalls
    /\ cmp_out = NoVerdict

\* compare_values(gold, extracted, field_name) is called and returns.
CompareCall ==
    /\ cmp_pc = "ready"
    /\ cmp_out' = compare_values(cmp_in.gold, cmp_in.extracted, cmp_in.field_name)
    /\ cmp_pc' = "done"
    /\ UNCHANGED <<cmp_in, svc_vars, handler_vars, val_vars, run_vars, score_vars, gate_vars>>

CmpNext == CompareCall

CmpSpec == CmpInit /\ [][CmpNext]_vars

(***************************************************************************)
(* Properties                                                              *)
(***************************************************************************)
Last(seq) == seq[Len(seq)]
\* The step has been taken in this invocation.
Happened(step) == \E i \in DOMAIN steps : steps[i] = step
\* The service has just returned the merged result.
JustMerged == steps # << >> /\ Last(steps) = "merge"
\* Pass 1 has returned inside extract_lease_data_with_refinement.
Pass1Done == use_multi_pass /\ DOMAIN response1 # {}
\* focused_confidence - initial_confidence of a field, a missing confidence
\* counting as 0.0
Gain(f) == GetOr(response2.confidence, f, 0) - GetOr(response1.confidence, f, 0)
\* The field paths whose pass-1 confidence is below the threshold and whose
\* pass-1 value is not null.
Candidates ==
    { f \in Fields : /\ Has(response1.confidence, f)
                     /\ response1.confidence[f] < ConfidenceThreshold
                     /\ Has(response1.extractions, f)
                     /\ response1.extractions[f] # PyNone }

C2_CandidateSelection ==
    Pass1Done => low_confidence_fields = Candidates

\* Pass 1 gave one field a low confidence and a value, and another field a
\* low confidence and null: the first is a candidate, the second is not.
C2_Witness ==
    /\ Pass1Done
    /\ \E f, g \in Fields :
          /\ f \in low_confidence_fields
          /\ g \notin low_confidence_fields
          /\ Has(response1.confidence, g)
          /\ response1.confidence[g] < ConfidenceThreshold
          /\ Get(response1.extractions, g) = PyNone

\* C3. Pass-2 failure is total: when the focused call fails the service
\* raises and returns nothing (and the endpoint stores no extraction and
\* marks the lease failed); a result returned after pass 2 has begun is a
\* merged one.
C3_Pass2FailureIsTotal ==
    /\ (Len(provider_calls) = 2 /\ provider_calls[2].status = "failed") =>
          /\ svc_pc = "raised"
          /\ DOMAIN result = {}
          /\ caller = "endpoint" => (persisted = << >> /\ lease_status = "failed")
    /\ (Len(provider_calls) = 2 /\ DOMAIN result # {}) => Happened("merge")

\* Pass 1 succeeded, candidates were found, and the focused call failed.
C3_Witness ==
    /\ Pass1Done
    /\ low_confidence_fields # {}
    /\ Len(provider_calls) = 2
    /\ provider_calls[2].status = "failed"

\* C4. Pass ordering: at most two provider calls per invocation, never two
\* pending at once; the second is the pass-2 call and exists only when the
\* pass-1 call has returned and a non-empty candidate set was computed from
\* its result.
C4_PassOrdering ==
    /\ Len(provider_calls) <= 2
    /\ Cardinality({ i \in DOMAIN provider_calls :
                       provider_calls[i].status = "pending" }) <= 1
    /\ \A i \in DOMAIN provider_calls : provider_calls[i].pass = i
    /\ Len(provider_calls) = 2 =>
          /\ provider_calls[1].status = "returned"
          /\ DOMAIN response1 # {}
          /\ low_confidence_fields # {}
          /\ low_confidence_fields = Candidates

\* The pass-2 call is in flight.
C4_Witness ==
    /\ Len(provider_calls) = 2
    /\ provider_calls[2].status = "pending"

\* Place of a step in the order of the live path.
StepRank(step) ==
    CASE step = "pass1_call" -> 1
      [] step \in {"pass1_return", "pass1_failed"} -> 2
      [] step = "pass2_call" -> 3
      [] step \in {"pass2_return", "pass2_failed"} -> 4
      [] step = "merge" -> 5
      [] step = "validate" -> 6
      [] step = "persist" -> 7

C7_NoCandidatesNoSecondPass ==
    (Pass1Done /\ Candidates = {}) =>
        /\ Len(provider_calls) = 1
        /\ svc_pc = "returned"
        /\ result.metadata.multi_pass = FALSE
        /\ result.metadata.refined_fields = {}
        /\ Last(steps) = "pass1_return" =>
              \A key \in required_keys : result[key] = response1[key]

\* Pass 1 returned a value with a confidence at or above the threshold and
\* nothing to refine.
C7_Witness ==
    /\ Pass1Done
    /\ Candidates = {}
    /\ Last(steps) = "pass1_return"
    /\ \E f \in Fields :
          /\ Get(response1.extractions, f) # PyNone
          /\ Has(response1.confidence, f)
          /\ response1.confidence[f] >= ConfidenceThreshold

\* C8. Cost aggregation: after a two-pass extraction the total_cost of the
\* merged metadata is the cost of pass 1 plus the cost of pass 2.
C8_CostAggregation ==
    Happened("merge") =>
        result.metadata.total_cost =
            response1.metadata.total_cost + response2.metadata.total_cost

\* A two-pass extraction whose passes cost different amounts.
C8_Witness ==
    /\ Happened("merge")
    /\ response1.metadata.total_cost > 0
    /\ response2.metadata.total_cost > response1.metadata.total_cost

\* C9 (as stated). Token aggregation: after a two-pass extraction the
\* input_tokens and output_tokens of the merged metadata are the sums of the
\* token counts of the two passes.
C9_TokenAggregation ==
    Happened("merge") =>
        /\ result.metadata.input_tokens =
              response1.metadata.input_tokens + response2.metadata.input_tokens
        /\ result.metadata.output_tokens =
              response1.metadata.output_tokens + response2.metadata.output_tokens

\* C10 (as stated). Adjustment clamp: the confidence_adjustment returned by
\* validate_and_normalize lies in [-0.2, +0.2].
C10_AdjustmentClamped ==
    val_pc = "done" =>
        /\ -20 <= val_out.confidence_adjustment
        /\ val_out.confidence_adjustment <= 20

\* The outcome of the type-level validator alone for the arguments of the
\* direct call, before any consistency check.
TypeLevel ==
    Validator(LowerTypeName(val_in.field_type), val_in.value, val_in.field_path)
\* The raw value of the direct call parsed / failed to parse for the type
\* of the call (the validators give -0.2 on a parse failure and 0 otherwise).
ParsedFirst == val_in.value # PyNone /\ TypeLevel.confidence_adjustment = 0
ParseFailed == val_in.value # PyNone /\ TypeLevel.confidence_adjustment < 0
\* The same Python value: same type, and for floats the same number.
SameValue(a, b) ==
    /\ a.t = b.t
    /\ IF a.t = "float" THEN DecEq(FloatOf(a), FloatOf(b)) ELSE a = b
\* Every warning of the second list is one of the first list.
NoNewWarnings(second, first) ==
    \A i \in DOMAIN second : \E j \in DOMAIN first : second[i] = first[j]
NormalizedTypes == {"date", "currency", "number", "percentage", "area"}

\* C11 (as stated). Normalization idempotence: for the types date, currency,
\* number, percentage and area, when the raw value parsed on the first
\* pass, validating the canonical value again gives the identical value and
\* no warning that the first pass did not give.
C11_Idempotent ==
    (/\ val_pc = "again"
     /\ LowerTypeName(val_in.field_type) \in NormalizedTypes
     /\ ParsedFirst) =>
        /\ SameValue(val_again.value, val_out.value)
        /\ NoNewWarnings(val_again.warnings, val_out.warnings)

\* C12 (as stated). ParseFailure recovery: when a non-null raw value cannot
\* be normalized for its declared type (date, currency, number, percentage,
\* area, boolean), the outcome holds the original raw value, a warning and a
\* confidence penalty.
C12_ParseFailureKeepsRawValue ==
    (/\ val_pc = "done"
     /\ LowerTypeName(val_in.field_type) \in NormalizedTypes \cup {"boolean"}
     /\ ParseFailed) =>
        /\ val_out.value = val_in.value
        /\ val_out.warnings # << >>
        /\ val_out.confidence_adjustment < 0

\* The field paths that have a cross-field rule, and the siblings a rule
\* reads.
RulePaths ==
    {"dates.expiration_date", "rent.base_rent_annual", "rent.rent_per_sf_annual",
     "property.usable_area", "dates.lease_term_months"}
ReferencedSiblings(field_path) ==
    CASE field_path = "dates.expiration_date" -> {"dates.commencement_date"}
      [] field_path = "rent.base_rent_annual" -> {"rent.base_rent_monthly"}
      [] field_path = "rent.rent_per_sf_annual" ->
            {"rent.base_rent_annual", "property.rentable_area"}
      [] field_path = "property.usable_area" -> {"property.rentable_area"}
      [] field_path = "dates.lease_term_months" ->
            {"dates.commencement_date", "dates.expiration_date"}
      [] OTHER -> {}
\* The sibling is in the map and can be read as what the rules need: a date
\* sibling as an ISO date, any other sibling as a number.
SiblingUsable(all_extractions, sibling) ==
    /\ Has(all_extractions, sibling)
    /\ all_extractions[sibling] # PyNone
    /\ IF sibling \in {"dates.commencement_date", "dates.expiration_date"}
       THEN ParseISO(all_extractions[sibling]).ok
       ELSE FloatOf(all_extractions[sibling]).ok
\* The outcome carries a warning with this text.
HasWarning(outcome, text) == \E i \in DOMAIN outcome.warnings : outcome.warnings[i].w = text

\* C13 (as stated). Consistency-check gating: without a sibling map, with a
\* null canonical value, for a field path without a rule, or with a
\* referenced sibling absent or unparsable, the outcome is the type-level
\* outcome (no consistency warning, no penalty); and a present, parsable
\* sibling is always checked: a usable area above the rentable area and an
\* expiration date not after the commencement date are warned about.
C13_ConsistencyGating ==
    (val_pc = "done" /\ val_in.value # PyNone) =>
        /\ (\/ val_in.all_extractions = NoExtractions
            \/ TypeLevel.value = PyNone
            \/ val_in.field_path \notin RulePaths
            \/ \E sibling \in ReferencedSiblings(val_in.field_path) :
                  ~SiblingUsable(val_in.all_extractions, sibling))
           => val_out = TypeLevel
        /\ (/\ val_in.field_path = "property.usable_area"
            /\ SiblingUsable(val_in.all_extractions, "property.rentable_area")
            /\ TypeLevel.value # PyNone
            /\ FloatOf(TypeLevel.value).ok
            /\ DecLess(FloatOf(val_in.all_extractions["property.rentable_area"]),
                       FloatOf(TypeLevel.value)))
           => /\ HasWarning(val_out, "Usable area greater than rentable area")
              /\ val_out.confidence_adjustment = TypeLevel.confidence_adjustment - 10
        /\ (/\ val_in.field_path = "dates.expiration_date"
            /\ SiblingUsable(val_in.all_extractions, "dates.commencement_date")
            /\ TypeLevel.value # PyNone
            /\ ParseISO(TypeLevel.value).ok
            /\ ToOrdinal(ParseISO(TypeLevel.value))
                  <= ToOrdinal(ParseISO(val_in.all_extractions["dates.commencement_date"])))
           => /\ HasWarning(val_out, "Expiration date should be after commencement date")
              /\ val_out.confidence_adjustment = TypeLevel.confidence_adjustment - 10

\* C14 (as stated). Annual-vs-monthly rule: validating rent.base_rent_annual
\* with a present, parsable sibling rent.base_rent_monthly gives the
\* annual-vs-monthly warning and the -0.1 penalty if and only if
\* |annual - 12 * monthly| is more than 5% of 12 * monthly
\* (20 * |annual - 12 * monthly| > 12 * monthly), for every pair of numbers.
C14_AnnualVsMonthly ==
    (/\ val_pc = "done"
     /\ val_in.field_path = "rent.base_rent_annual"
     /\ val_in.value # PyNone
     /\ TypeLevel.value # PyNone
     /\ FloatOf(TypeLevel.value).ok
     /\ SiblingUsable(val_in.all_extractions, "rent.base_rent_monthly")) =>
        LET expected == DecMul(FloatOf(val_in.all_extractions["rent.base_rent_monthly"]), 12)
            c == Scaled(DecSub(FloatOf(TypeLevel.value), expected), expected)
            differs == 20 * Abs(c.a) > c.b
        IN  /\ HasWarning(val_out, "Annual rent doesn't match monthly x 12") <=> differs
            /\ val_out.confidence_adjustment =
                  TypeLevel.confidence_adjustment - (IF differs THEN 10 ELSE 0)

PastAcquisition(pcs) == { t \in Invocations : pcs[t] \in {"loading", "running", "extracting"} }

\* C16. Concurrent benchmark runs are refused: at most one run_baseline
\* invocation is past the lock acquisition, and it is the holder of the
\* lock; a call made while the lock is held raises 'A baseline run is
\* already in progress', and that step changes neither the run state nor
\* the lock.
C16_ConcurrentRunsRefused ==
    [][/\ Cardinality(PastAcquisition(run_pc')) <= 1
       /\ \A t \in PastAcquisition(run_pc') : run_lock' = t
       /\ \A t \in Invocations :
             (run_pc[t] = "idle" /\ run_pc'[t] # "idle" /\ run_lock # 0) =>
                 /\ run_pc'[t] = "refused"
                 /\ current_run' = current_run
                 /\ run_lock' = run_lock
                 /\ run_lock # t]_vars

\* A call was refused while the other invocation is in the middle of its
\* run and still holds the lock.
C16_Witness ==
    \E t, u \in Invocations :
        /\ run_pc[t] = "refused"
        /\ run_pc[u] = "extracting"
        /\ run_lock = u
        /\ current_run.status = "running"

\* C17 (as stated). Single writer of run state: while the run state has
\* status 'running', every step that changes it is a step of the invocation
\* that holds the lock.
C17_SingleWriter ==
    [][(current_run.status = "running" /\ current_run' # current_run) =>
          \E t \in Invocations : run_lock = t /\ run_pc'[t] # run_pc[t]]_vars

\* The call of compare_values has returned.
Compared == cmp_pc = "done"
KnownClass == cmp_in.field_name \in date_fields \cup number_fields \cup text_fields
GoldNull == normalize_value(cmp_in.gold) = PyNone
ExtractedIsNull == normalize_value(cmp_in.extracted) = PyNone
\* The gold value, as a number rounded to hundredths, is 0.
GoldIsZero ==
    /\ normalize_number(normalize_value(cmp_in.gold)).ok
    /\ normalize_number(normalize_value(cmp_in.gold)).f.m = << >>

\* C18 The null table of compare_values, for a field name of the date,
\* number or text class: both sides null is (match, both_null); gold null
\* and extracted present is a mismatch; gold present and extracted null is a
\* mismatch, except for a number field whose gold is zero, which is
\* (match, zero_vs_null).  Gold null with extracted 0 falls under the second
\* row: the exception has one side.
C18_NullTable ==
    (Compared /\ KnownClass) =>
        /\ (GoldNull /\ ExtractedIsNull) => cmp_out = Verdict(TRUE, "both_null")
        /\ (GoldNull /\ ~ExtractedIsNull) => ~cmp_out.match
        /\ (~GoldNull /\ ExtractedIsNull) =>
              IF cmp_in.field_name \in number_fields /\ GoldIsZero
              THEN cmp_out = Verdict(TRUE, "zero_vs_null")
              ELSE ~cmp_out.match

\* A gold zero was compared with a missing extraction of a number field.
C18_Witness ==
    /\ Compared
    /\ cmp_in.field_name \in number_fields
    /\ ~GoldNull /\ ExtractedIsNull /\ GoldIsZero
    /\ cmp_out.detail = "zero_vs_null"

\* C19 A field name of none of the three classes is a forced mismatch:
\* whatever the gold and the extracted value are, null values included,
\* compare_values does not return a match.
C19_UnknownFieldForcedMismatch ==
    (Compared /\ ~KnownClass) => ~cmp_out.match

RECURSIVE BigToInt(_)
\* The integer a natural number below 2^31 stands for.
BigToInt(a) == IF a = << >> THEN 0 ELSE a[1] + Radix * BigToInt(Tail(a))

\* A compared value as the comparator's number, in hundredths (an integer).
Hundredths(val) ==
    LET Signed(f) == IF f.neg THEN -BigToInt(FHundredths(f)) ELSE BigToInt(FHundredths(f))
    IN  Signed(normalize_number(normalize_value(val)).f)

\* Both sides of the call are present and parse as numbers, on a number
\* field with the plain 5% rule.
PlainNumbersCompared ==
    /\ Compared
    /\ cmp_in.field_name \in number_fields \ {"term_months", "pro_rata_share"}
    /\ ~GoldNull /\ ~ExtractedIsNull
    /\ normalize_number(normalize_value(cmp_in.gold)).ok
    /\ normalize_number(normalize_value(cmp_in.extracted)).ok

\* C20 The tolerance of the number fields (term_months and pro_rata_share
\* apart), both sides parsed: with gold # 0 the values match exactly when
\* |extracted - gold| <= 5% of |gold|, the boundary included; with gold = 0
\* they match exactly when extracted = 0.  The values are the normalized
\* ones (hundredths), compared in exact arithmetic.
C20_ToleranceBoundary ==
    PlainNumbersCompared =>
        IF Hundredths(cmp_in.gold) = 0
        THEN cmp_out.match <=> (Hundredths(cmp_in.extracted) = 0)
        ELSE cmp_out.match <=>
                (20 * Abs(Hundredths(cmp_in.extracted) - Hundredths(cmp_in.gold))
                    <= Abs(Hundredths(cmp_in.gold)))

\* The synonym cluster a lease type names, by the lower-cased text; "none"
\* for a text that is no synonym.
SynonymCluster(val) ==
    LET Of(s) ==
            IF s \in { <<"n", "n", "n">>, <<"t", "r", "i", "p", "l", "e", " ", "n", "e", "t">>,
                       <<"n", "e", "t", " ", "n", "e", "t", " ", "n", "e", "t">> } THEN "nnn"
            ELSE IF s \in { <<"n", "n">>, <<"d", "o", "u", "b", "l", "e", " ", "n", "e", "t">>,
                            <<"n", "e", "t", " ", "n", "e", "t">> } THEN "nn"
            ELSE IF s \in { <<"g", "r", "o", "s", "s">>,
                            <<"f", "u", "l", "l", " ", "s", "e", "r", "v", "i", "c", "e">> }
            THEN "gross"
            ELSE IF s \in { <<"m", "o", "d", "i", "f", "i", "e", "d", " ", "g", "r", "o", "s", "s">>,
                            <<"m", "o", "d", "i", "f", "i", "e", "d", " ", "n", "e", "t">> }
            THEN "modified"
            ELSE "none"
    IN  IF normalize_value(val) = PyNone THEN "none" ELSE Of(Lower(normalize_value(val).s))

\* Two lease types of different synonym clusters were compared.
CrossClusterCompared ==
    /\ Compared
    /\ cmp_in.field_name = "lease_type"
    /\ SynonymCluster(cmp_in.gold) # "none"
    /\ SynonymCluster(cmp_in.extracted) # "none"
    /\ SynonymCluster(cmp_in.gold) # SynonymCluster(cmp_in.extracted)

\* C21 For the field lease_type, a gold and an extracted value of different
\* synonym clusters are a mismatch, also when one term occurs inside the
\* other ('gross' in 'modified gross', 'net net' in 'net net net').
C21_CrossClusterMismatch ==
    CrossClusterCompared => ~cmp_out.match

\* Within the lease_type rules, a match by a cluster rule is between two
\* values that the rule's variants both occur in.
SameClusterMatches ==
    (/\ Compared
     /\ cmp_in.field_name = "lease_type"
     /\ SynonymCluster(cmp_in.gold) # "none"
     /\ SynonymCluster(cmp_in.gold) = SynonymCluster(cmp_in.extracted))
        => cmp_out.match

\* validate_date has returned for a value that is not None.
DateValidated ==
    /\ val_pc = "done"
    /\ LowerTypeName(val_in.field_type) = "date"
    /\ val_in.value # PyNone

\* C22 The validator's and the comparator's date normalization are one
\* function of the input: the value validate_date returns is the value
\* normalize_date returns for the same input, for the inputs both parse and
\* for those neither parses.
C22_OneDateParser ==
    DateValidated => val_out.value = normalize_date(val_in.value)

\* An input in ISO form that is a calendar day, or in the form %m/%d/%Y, is
\* normalized alike by the two functions.
SharedDateFormsAgree ==
    (/\ DateValidated
     /\ val_in.value.t = "str"
     /\ \/ Strptime(Strip(val_in.value.s), FormatISO).ok
        \/ Strptime(Strip(val_in.value.s), DateFormats[1]).ok)
        => val_out.value = normalize_date(val_in.value)

\* The number a compared value stands for, as float() reads it and before
\* any rounding: [ok, m, e], the decimal m / 10^e.
RawDecimal(val) ==
    FloatOf(IF normalize_value(val).t = "str"
            THEN PyStr(Without(normalize_value(val).s, {",", "$", " "}))
            ELSE normalize_value(val))

\* A decimal of at most four places in ten-thousandths (an integer).
TenThousandths(d) == d.m * Pow10(4 - d.e)

\* Both sides of a pro_rata_share call are present and are numbers.
ProRataCompared ==
    /\ Compared
    /\ cmp_in.field_name = "pro_rata_share"
    /\ ~GoldNull /\ ~ExtractedIsNull
    /\ RawDecimal(cmp_in.gold).ok /\ RawDecimal(cmp_in.extracted).ok

\* The value of one side after the auto-scaling, in ten-thousandths: a side
\* strictly between 0 and 1 is multiplied by 100 when the other is above 1.
AutoScaled(side, other) ==
    IF 0 < side /\ side < 10000 /\ other > 10000 THEN 100 * side ELSE side

\* g and e are within the tolerance: |e - g| <= 5% of |g|, and e = 0 for
\* g = 0.
WithinTolerance(g, e) == IF g = 0 THEN e = 0 ELSE 20 * Abs(e - g) <= Abs(g)

\* The verdict the auto-scaling rule gives for the two values.
ScaledVerdict(g, e) == WithinTolerance(AutoScaled(g, e), AutoScaled(e, g))

\* C23 For pro_rata_share, a side strictly between 0 and 1 is multiplied by
\* 100 when the other side is greater than 1, whichever side it is, and the
\* 5% tolerance is applied to the result; in every other case the values are
\* compared as they are.
C23_ProRataAutoScaling ==
    ProRataCompared =>
        (cmp_out.match <=> ScaledVerdict(TenThousandths(RawDecimal(cmp_in.gold)),
                                         TenThousandths(RawDecimal(cmp_in.extracted))))

\* The same rule on the values normalize_number returns, which are rounded
\* to two decimals before they are tested and scaled (in ten-thousandths:
\* 100 times the hundredths).
ScalingOfRoundedValues ==
    ProRataCompared =>
        (cmp_out.match <=> ScaledVerdict(100 * Hundredths(cmp_in.gold),
                                         100 * Hundredths(cmp_in.extracted)))

\* The spec's example: 12.5% as a fraction and as a percentage match, in
\* both orders.
ProRataExampleMatches ==
    (/\ Compared
     /\ cmp_in.field_name = "pro_rata_share"
     /\ {cmp_in.gold, cmp_in.extracted} = {PyFloat(125, 3), PyFloat(125, 1)})
        => cmp_out.match

(***************************************************************************)
(* baseline_service: scoring of a run (run_baseline, the field loop of a   *)
(* lease and the run summary)                                              *)
(***************************************************************************)
\* Three of the keys of FIELD_MAP with the extraction paths they map to.
FIELD_MAP ==
    [gs_field \in {"lease_type", "security_deposit", "term_months"} |->
       CASE gs_field = "lease_type" -> "operating_expenses.structure_type"
         [] gs_field = "security_deposit" -> "financial.security_deposit"
         [] gs_field = "term_months" -> "dates.lease_term_months"]

\* float(n) of an int
FOfInt(n) == FOfDec([m |-> n, e |-> 0])

\* |a| * 10 rounded to the nearest integer, ties to even
FTenths(a) ==
    IF a.m = << >> THEN << >>
    ELSE IF a.x >= 0 THEN BigShl(BigMulSmall(a.m, 10), a.x)
    ELSE BigRoundQuot(BigMulSmall(a.m, 10), BigShl(<<1>>, -a.x), 40)
FNearestTenth(neg, k) ==
    IF k = << >> THEN FZero ELSE FRatio(neg, k, BigOfInt(10), 0)
\* round(a, 1)
FRound1(a) ==
    CHOOSE f \in { FNearestTenth(av.neg, FTenths(av)) : av \in {a} } : TRUE

\* Variant that divides by the number of mapped fields.
PercentageOfMapped(correct, total) ==
    FMulInt(FDiv(FOfInt(correct), FOfInt(Cardinality(DOMAIN FIELD_MAP))), 100)

\* correct / total * 100 if total > 0 else 0
Percentage(correct, total) ==
    IF total > 0 THEN FMulInt(FDiv(FOfInt(correct), FOfInt(total)), 100) ELSE FZero

\* Lines 424-441: field_results of a lease.  A mapped field whose gold value
\* is None (missing from gt, or null in it) gets no entry.
ComparedFields(gt, extractions) ==
    { <<gs_field, compare_values(gt[gs_field], Get(extractions, FIELD_MAP[gs_field]), gs_field)>> :
      gs_field \in {f \in DOMAIN FIELD_MAP : Get(gt, f) # PyNone} }
DictOf(items) ==
    [key \in {item[1] : item \in items} |-> (CHOOSE item \in items : item[1] = key)[2]]
FieldResults(gt, extractions) ==
    CHOOSE field_results \in { DictOf(items) : items \in {ComparedFields(gt, extractions)} } : TRUE

\* Lines 443-456: lease_result of a lease that was extracted.
LeaseCounts(tenant, field_results, correct, total) ==
    [tenant |-> tenant, field_results |-> field_results,
     correct |-> correct, total |-> total, accuracy |-> Percentage(correct, total)]
LeaseResult(tenant, field_results) ==
    LeaseCounts(tenant, field_results,
                Cardinality({f \in DOMAIN field_results : field_results[f].match}),
                Cardinality(DOMAIN field_results))

\* Lines 476-483: the entry of a lease whose extraction raised.
LeaseError(tenant) == [tenant |-> tenant, error |-> "raised", accuracy |-> FZero]

\* 'error' not in r
Successful(results) == SelectSeq(results, LAMBDA r : ~Has(r, "error"))

RECURSIVE SumAccuracy(_)
\* sum(r['accuracy'] for r in successful), from the left
SumAccuracy(successful) ==
    IF successful = << >> THEN FZero
    ELSE FAdd(SumAccuracy(SubSeq(successful, 1, Len(successful) - 1)),
              successful[Len(successful)].accuracy)

\* Lines 497-504: field_scores, one {'correct', 'total'} per field that has
\* an entry in the field_results of some successful lease.
FieldScores(successful) ==
    [field \in UNION { DOMAIN successful[i].field_results : i \in 1..Len(successful) } |->
       [correct |-> Cardinality({i \in 1..Len(successful) :
                                    /\ Has(successful[i].field_results, field)
                                    /\ successful[i].field_results[field].match}),
        total |-> Cardinality({i \in 1..Len(successful) :
                                    Has(successful[i].field_results, field)})]]

\* Lines 495 and 510-526: run_summary (the entries about accuracy).
SummaryOf(results, successful, field_scores) ==
    [leases_tested |-> Len(successful),
     leases_errored |-> Len(results) - Len(successful),
     average_accuracy |->
         IF successful # << >>
         THEN FDiv(SumAccuracy(successful), FOfInt(Len(successful))) ELSE FZero,
     field_accuracy |->
         [f \in DOMAIN field_scores |->
            IF field_scores[f].total > 0
            THEN FRound1(Percentage(field_scores[f].correct, field_scores[f].total))
            ELSE FZero]]
RunSummary(results) ==
    SummaryOf(results, Successful(results), FieldScores(Successful(results)))

\* Gold records of the sample: the lease type and the deposit are missing or
\* have a value (for the lease type also a null token), the term is null or
\* has a value.
ScoreGold ==
    { [f \in K \cup {"term_months"} |->
         CASE f = "lease_type" -> lease_type
           [] f = "security_deposit" -> PyInt(95000)
           [] OTHER -> term_months] :
      K \in SUBSET {"lease_type", "security_deposit"},
      lease_type \in {PyStr(<<"N", "N", "N">>), PyStr(<<"N", "/", "A">>)},
      term_months \in {PyNone, PyStr(<<"6", "0">>)} }

\* Extractions of the sample: the deposit and the term as the gold records
\* have them (the term in years), the lease type missing or extracted.
ScoreExtractions ==
    { [p \in {"financial.security_deposit", "dates.lease_term_months"} \cup K |->
         CASE p = "financial.security_deposit" -> PyInt(95000)
           [] p = "dates.lease_term_months" -> PyStr(<<"5", " ", "y", "e", "a", "r", "s">>)
           [] OTHER -> PyStr(<<"T", "r", "i", "p", "l", "e", " ", "N", "e", "t">>)] :
      K \in SUBSET {"operating_expenses.structure_type"} }

\* What the service call of a lease gave: an exception or a result.
ScoreEntries ==
    { [ground_truth |-> gt, raised |-> TRUE, extractions |-> EmptyDict] : gt \in {EmptyDict} }
    \cup [ground_truth : ScoreGold, raised : {FALSE}, extractions : ScoreExtractions]

\* Number of leases of a scored run.
MaxScored == 2

ScoreInit ==
    /\ ServiceIdle
    /\ ValIdle
    /\ RunIdle
    /\ CmpIdle
    /\ score_pc = "scoring"
    /\ score_in \in UNION { [1..n -> ScoreEntries] : n \in 0..MaxScored }
    /\ all_results = << >>
    /\ run_summary = NoSummary

\* Lines 405-484 for the next lease: the lease is scored, or the inner except
\* branch records the error; either way all_results grows by one.
ScoreLease ==
    /\ score_pc = "scoring"
    /\ Len(all_results) < Len(score_in)
    /\ \E tenant \in {Len(all_results) + 1} :
         all_results' =
            Append(all_results,
                   IF score_in[tenant].raised THEN LeaseError(tenant)
                   ELSE LeaseResult(tenant, FieldResults(score_in[tenant].ground_truth,
                                                         score_in[tenant].extractions)))
    /\ UNCHANGED <<score_pc, score_in, run_summary>>
    /\ UNCHANGED <<svc_vars, handler_vars, val_vars, run_vars, cmp_vars, gate_vars>>

\* Lines 494-526 after the loop: run_summary is built.
ScoreSummary ==
    /\ score_pc = "scoring"
    /\ Len(all_results) = Len(score_in)
    /\ run_summary' = RunSummary(all_results)
    /\ score_pc' = "done"
    /\ UNCHANGED <<score_in, all_results>>
    /\ UNCHANGED <<svc_vars, handler_vars, val_vars, run_vars, cmp_vars, gate_vars>>

ScoreNext == ScoreLease \/ ScoreSummary

ScoreSpec == ScoreInit /\ [][ScoreNext]_vars

\* The mapped fields that the gold record of lease i has a value for.
InGold(i) ==
    {f \in DOMAIN FIELD_MAP :
        Has(score_in[i].ground_truth, f) /\ score_in[i].ground_truth[f] # PyNone}
\* The leases scored so far whose extraction did not raise.
ScoredLeases == {i \in 1..Len(all_results) : ~score_in[i].raised}
\* The fields of lease i that the comparison found to match.
Matching(i) == {f \in DOMAIN all_results[i].field_results : all_results[i].field_results[f].match}
\* percentage * total = 100 * correct, up to slack (in 10^-9) for the
\* rounding of the float operations
IsRatio(percentage, correct, total, slack) ==
    FCmp(FAbs(FSub(FMulInt(percentage, total), FOfInt(100 * correct))),
         FOfDec([m |-> slack, e |-> 9])) <= 0
\* The leases in which field f was evaluated.
EvaluatedIn(f) == {i \in ScoredLeases : f \in InGold(i)}

\* C24: the evaluated fields of a document are exactly the mapped fields its
\* gold record has a value for, whatever was extracted; its accuracy is the
\* share of evaluated fields that match, as a percentage; and the accuracy of
\* a field across the batch is the share of the documents in which it was
\* evaluated where it matched (to one decimal of the percentage).
C24_AccuracyAggregation ==
    /\ \A i \in ScoredLeases :
         /\ DOMAIN all_results[i].field_results = InGold(i)
         /\ InGold(i) # {} =>
               IsRatio(all_results[i].accuracy, Cardinality(Matching(i)),
                       Cardinality(InGold(i)), 1)
    /\ score_pc = "done" =>
         \A f \in DOMAIN FIELD_MAP :
            EvaluatedIn(f) # {} =>
               /\ Has(run_summary.field_accuracy, f)
               /\ IsRatio(run_summary.field_accuracy[f],
                          Cardinality({i \in EvaluatedIn(f) : f \in Matching(i)}),
                          Cardinality(EvaluatedIn(f)),
                          50000000 * Cardinality(EvaluatedIn(f)) + 1)

\* A summarised run with a lease whose gold record has two of the three
\* fields, both matching, and an extracted value for the third: 100%; the
\* third field was evaluated in the other lease only.
C24_TwoOfThree ==
    /\ score_pc = "done"
    /\ \E i \in ScoredLeases :
         /\ InGold(i) = {"security_deposit", "term_months"}
         /\ Matching(i) = InGold(i)
         /\ Get(score_in[i].extractions, FIELD_MAP["lease_type"]) # PyNone
         /\ FCmp(all_results[i].accuracy, FOfInt(100)) = 0
         /\ EvaluatedIn("lease_type") = ScoredLeases \ {i}
         /\ EvaluatedIn("lease_type") # {}

(***************************************************************************)
(* C25: replies that lack top-level keys                                   *)
(***************************************************************************)
\* parsed has the four keys: those of the reply with the reply's values, the
\* others with an empty dict.
ParsedAs(data, parsed) ==
    \A key \in required_keys :
        /\ Has(parsed, key)
        /\ parsed[key] = IF Has(data, key) THEN data[key] ELSE EmptyDict

\* C25: whichever of the four top-level keys the JSON object of the provider
\* lacks, the pass returns (the reply is no reason to fail), and what it
\* returns has each missing key as an empty map and each present key with
\* the value the provider sent.
C25_MissingKeysDefaulted ==
    /\ svc_pc = "pass1_call" =>
          \A data \in ProviderReplies(1), usage \in Usages :
             ENABLED (Pass1Returns(data, usage) /\ ParsedAs(data, response1'))
    /\ svc_pc = "pass2_call" =>
          \A data \in ProviderReplies(2), usage \in Usages :
             ENABLED (Pass2Returns(data, usage) /\ ParsedAs(data, response2'))

\* Pass 2 has returned from a reply that held the confidence key only.
C25_IncompleteReply ==
    /\ svc_pc = "returned"
    /\ response2 # NoResult
    /\ response2.extractions = EmptyDict /\ response2.reasoning = EmptyDict
    /\ response2.confidence # EmptyDict

(***************************************************************************)
(* C26: the cost entries of a merged result                                *)
(***************************************************************************)
\* C26 (as stated). Cost breakdown after merge: in the metadata of a two-pass
\* result initial_cost is the cost of pass 1 alone, refinement_cost is the
\* cost of pass 2 alone, and the two add up to total_cost.
C26_CostBreakdown ==
    Happened("merge") =>
        /\ result.metadata.initial_cost = response1.metadata.total_cost
        /\ result.metadata.refinement_cost = response2.metadata.total_cost
        /\ result.metadata.initial_cost + result.metadata.refinement_cost =
              result.metadata.total_cost

\* What the merge writes: total_cost is the sum of the two passes and
\* refinement_cost the cost of pass 2, but initial_cost is read from the
\* metadata dict that merged shares with initial after the sum was stored in
\* it, so it repeats total_cost.
InitialCostRepeatsTotal ==
    Happened("merge") =>
        /\ result.metadata.total_cost =
              response1.metadata.total_cost + response2.metadata.total_cost
        /\ result.metadata.refinement_cost = response2.metadata.total_cost
        /\ result.metadata.initial_cost = result.metadata.total_cost

(***************************************************************************)
(* C27: what the merge leaves alone                                        *)
(***************************************************************************)
\* Field f has the same entry (or the same lack of one) in the extractions,
\* reasoning, citations and confidence of the returned result as in pass 1.
AsInPass1(f) ==
    \A key \in required_keys :
        /\ Has(result[key], f) <=> Has(response1[key], f)
        /\ Has(response1[key], f) => result[key][f] = response1[key][f]

\* C27. Merge frame: in the merged result every field outside the candidate
\* set has the value, reasoning, citation and confidence of pass 1,
\* whatever the pass-2 reply holds for it; and no field has a confidence
\* below its pass-1 confidence.
C27_MergeFrame ==
    JustMerged =>
        /\ \A f \in Fields \ Candidates : AsInPass1(f)
        /\ \A f \in DOMAIN response1.confidence :
              /\ Has(result.confidence, f)
              /\ result.confidence[f] >= response1.confidence[f]

\* A merge in which the pass-2 reply has, for a field that is no candidate,
\* another value and a confidence that is higher by the minimum gain or
\* more, while a candidate was swapped.
C27_NonCandidateInReply ==
    /\ JustMerged
    /\ \E f \in Fields \ Candidates :
          /\ Has(response1.confidence, f) /\ Has(response2.confidence, f)
          /\ Gain(f) >= MinGain
          /\ Has(response2.extractions, f)
          /\ Get(response1.extractions, f) # response2.extractions[f]
    /\ \E g \in Candidates : Gain(g) >= MinGain

(***************************************************************************)
(* C28: the order of the validation loop                                   *)
(***************************************************************************)
\* The validation step of the endpoint is being taken.
ValidationStep == handler_pc = "in_service" /\ handler_pc' = "saving"

\* C28 (as stated). Validation is order-independent: the warnings and the
\* confidences that the validation loop of the endpoint leaves behind are
\* those of the loop run over the fields in any other order.
C28_OrderIndependent ==
    [][ValidationStep =>
          \A order \in KeyOrders(DOMAIN result.extractions) :
             /\ result'.metadata.validation_warnings =
                   ValidationLoop(order, result.extractions, result.confidence,
                                  EmptyDict).validation_warnings
             /\ result'.confidence =
                   ValidationLoop(order, result.extractions, result.confidence,
                                  EmptyDict).confidence]_vars

\* What does not depend on the order: the normalized values.
NormalizedValuesAnyOrder ==
    [][ValidationStep =>
          \A order \in KeyOrders(DOMAIN result.extractions) :
             result'.extractions =
                ValidationLoop(order, result.extractions, result.confidence,
                               EmptyDict).extractions]_vars

(***************************************************************************)
(* The extract endpoint to its end                                         *)
(***************************************************************************)
\* Lines 74-80: another POST /extract/{lease_id} arrives while the lease is
\* PROCESSING and is answered with 400; nothing is written.
EndpointRejects ==
    /\ lease_status = "processing"
    /\ concurrent_status = 0
    /\ concurrent_status' = 400
    /\ UNCHANGED <<svc_vars, handler_vars, val_vars, bench_vars>>

\* Replies of the provider with all four keys and a value and a confidence
\* for every field.
CompleteReplies(p) ==
    { data \in ProviderReplies(p) :
        /\ DOMAIN data = required_keys
        /\ DOMAIN data["confidence"] = Fields
        /\ DOMAIN data["extractions"] = Fields
        /\ \A f \in Fields : data["extractions"][f] # PyNone }

\* The steps of a request after its acceptance, but for the validation.
HandlerProgress ==
    \/ EndpointDownloadFails
    \/ EndpointCallService
    \/ Pass1Fails
    \/ \E data \in CompleteReplies(1), usage \in Usages : Pass1Returns(data, usage)
    \/ Pass2Fails
    \/ \E data \in CompleteReplies(2), usage \in Usages : Pass2Returns(data, usage)
    \/ EndpointPersist

HandlerNext ==
    \/ \E multi_pass \in BOOLEAN : EndpointAccept(multi_pass)
    \/ EndpointRejects
    \/ HandlerProgress
    \/ EndpointValidate

\* The service has returned and the handler is about to validate; the
\* validation step, told by what it does to the position of the handler.
ValidationDue == caller = "endpoint" /\ handler_pc = "in_service" /\ svc_pc = "returned"
ValidationTaken == ValidationDue /\ handler_pc' = "saving"

\* The handler is sequential code without a loop that waits, and the calls
\* it makes return or raise: once a request is accepted its next step is
\* eventually taken.  The last conjunct is weak fairness of the validation
\* step, written out with the condition under which the step can be taken.
HandlerSpec ==
    /\ Init /\ [][HandlerNext]_vars
    /\ WF_vars(HandlerProgress)
    /\ ([]<>~ValidationDue \/ []<><<ValidationTaken>>_vars)

\* The lease is COMPLETED with an Extraction row, or FAILED with a message.
Settled ==
    \/ lease_status = "completed" /\ persisted # << >>
    \/ lease_status = "failed" /\ lease_error # "none"

RunStep(t) ==
    \/ \E total_leases \in 0..MaxLeases : RunStart(t, total_leases)
    \/ RunLeaseBegin(t)
    \/ \E failed \in BOOLEAN : RunLeaseEnd(t, failed)
    \/ RunFinish(t)

\* run_baseline is sequential code whose calls return or raise: an
\* invocation that holds the lock goes on to its next step.
RunFairSpec == Init /\ [][RunNext]_vars /\ \A t \in Invocations : WF_vars(RunStep(t))

\* Invocation t ends a run in this step: it held the lock and its call
\* returns or raises.
RunEnds(t) ==
    /\ run_lock = t
    /\ run_pc[t] \notin {"returned", "raised"}
    /\ run_pc'[t] \in {"returned", "raised"}

====
